---------------------------- MODULE Spec2Model ----------------------------
(***************************************************************************)
(* A model of the numeric core of vFAPS: the undo manager and recorder     *)
(* (recorder.py, funscript_io.py), the stabilization filters               *)
(* (stabilization.py), the calibration mapping (vr_controller.py) and the  *)
(* beat-snap resampler (main_window.py, beat_detection.py).                *)
(*                                                                         *)
(* Python floats are modelled by exact rationals on a fixed grid: a raw    *)
(* value, a threshold or a time is an integer count of a fixed fraction of *)
(* its unit, named where it is used.  An Optional value is <<>> (None) or  *)
(* <<v>>.  Each component has its own variables and its own specification; *)
(* a specification leaves the other components' variables unchanged.       *)
(***************************************************************************)
EXTENDS Integers, Sequences, FiniteSets, TLC

None == <<>>

Some(v) == <<v>>

Abs(n) == IF n < 0 THEN -n ELSE n

Min(a, b) == IF a < b THEN a ELSE b

Max(a, b) == IF a < b THEN b ELSE a

Max2(a, b) == IF a >= b THEN a ELSE b

Min2(a, b) == IF a <= b THEN a ELSE b

VARIABLES
    undo_stack,     \* UndoManager._undo_stack, oldest entry first
    redo_stack,     \* UndoManager._redo_stack
    um_op,          \* the UndoManager method called last
    um_ret,         \* what that call returned (None for push and clear)
    um_pushes,      \* push calls since construction or the last clear
    um_undos,       \* undo calls since construction or the last clear
    slew,           \* a SlewRateLimiter: [max_rate, prev, t_prev]
    slew_call,      \* its last filter call: arguments, object before, result
    slew_out,       \* what the filter call before that one returned (Optional)
    hyst,           \* a HysteresisFilter: [band, last_emitted, direction]
    hyst_call,      \* its last filter call
    spike,          \* a SpikeRejector: [threshold, prev, held]
    spike_call,     \* its last filter call
    spike_before,   \* the filter call before that one
    cfg_heap,       \* the StabilizationConfig objects, by reference
    stabilizers,    \* StabilizationManager.stabilizers: axis -> AxisStabilizer
    mgr,            \* StabilizationManager: [preset_name, config]
    stab_assigned,  \* axis -> the field values of the config last assigned
    stab_op,        \* the manager method called last
    stab_arg,       \* the arguments of that call
    cal,            \* an AxisCalibration
    cal_calls,      \* the last two map_value calls since cal last changed
    rdp_pc,         \* "idle", or "done" once _reduce_points has returned
    rdp_in,         \* the actions passed to _reduce_points
    rdp_epsilon,    \* Recorder.rdp_epsilon at the call, in tenths
    rdp_out,        \* the actions it returned
    rec_heap,       \* the FunscriptAction objects: reference -> [at, pos]
    axis_actions,   \* project.axes: axis name -> its actions (references)
    is_recording,   \* Recorder.is_recording
    active_axes,    \* Recorder.active_axes
    _buffer,        \* Recorder._buffer: its items [axis_name, actions]
    _last_sample_time,  \* Recorder._last_sample_time: axis name -> ms
    rec_calls,      \* calls so far: [pushes, starts, undos], where pushes
                    \* counts the undo entries pushed
    pipe,           \* an AxisStabilizer
    pipe_twin,      \* after reset: a stabilizer built then, given the same calls
    pipe_t,         \* the time of its last sample
    pipe_call,      \* its last call: [op, arg, t, ret, twin_ret]
    snap_call,      \* the last beat-snap call since the import (Optional)
    grid_bd,        \* a BeatData: [beats, bpm, subdivisions]
    grid_call,      \* its last get_beat_grid call: [self, ret] (Optional)
    _polling,       \* VRControllerInput._polling
    poll_pc,        \* where the polling thread is
    poll_state,     \* the ControllerState of the poll_once call under way or last made
    filters,        \* whether the Kalman, pre-map and post-map filters hold a sample, and the preset
    _axis_locks,    \* _axis_locks of one axis
    _state_lock,    \* who holds _state_lock: "free", "poll" or "ui"
    _current_state, \* the id of the ControllerState in the slot
    _history,       \* the ids in _history, oldest first
    buttons,        \* [prev_trigger, callbacks, next, edge, invoked]: _prev_trigger, the trigger callbacks, the loop over them
    ui_pc,          \* where the interactive thread is
    ui_read,        \* the id get_current_state returned last
    ctrl_pressed,   \* trigger_pressed of each ControllerState poll_once has returned, by id
    _recording_active,\* MainWindow._recording_active
    _btn_trigger_fired,\* MainWindow._btn_trigger_fired
    qt_pc,          \* where the Qt thread is: "idle" between handlers, "add_sample" inside the loop of add_sample
    qt_call,        \* the arguments of the add_sample call under way and the axes its loop has yet to take
    sess_call,      \* the Recorder method called last
    dead,           \* a DeadzoneFilter: [threshold, last_emitted]
    dead_call,      \* its last filter call
    dead_out,       \* the value the filter call before the last returned
    tempo_call,     \* the call of _estimate_tempo that was made
    ioi_call,       \* the call of _estimate_tempo_from_ioi that was made
    beat_call,      \* the call of detect_beats that was made
    det_pc,         \* where the run of detect_beats is
    det_progress,   \* the values detect_beats gave to progress_callback
    det_ret,        \* what detect_beats returned
    trk_pc,         \* where the run of track_roi is
    trk_progress,   \* the values track_roi gave to progress_callback
    trk_ret,        \* what track_roi returned
    trk_i,          \* the frame track_roi is at
    n_frames,       \* the frames track_roi extracted
    recenter_call,  \* the call of recenter that was made last
    smooth_call,    \* the call of apply_smoothing that was made last
    euro,           \* a OneEuroFilter
    euro_calls,     \* calls of filter since the last reset
    euro_call,      \* the last call of filter: its arguments, the filter before, the value returned
    commit_call,    \* the last stop_recording: the buffer, axes and undo stack it found
    hist_undo,      \* beside each undo entry, the axes before and after its operation
    hist_redo,      \* the same beside each redo entry
    hist_call,      \* the last push, undo or redo
    buf_call,       \* the last add_sample: its arguments, the active axes and the buffer it found
    lock_ctl,       \* _axis_locks, _axis_lock_values and the current state of the controller
    lock_stabs,     \* the stabilizers of the axes
    lock_t,         \* polls so far
    lock_call,      \* the last lock call: what it found, raised and returned
    race_cal,       \* the AxisCalibration of one axis
    race_ui,        \* where the interactive thread is in a calibration update
    race_poll,      \* where the polling thread is in map_value
    race_written,   \* the (min_val, max_val) pairs written as a whole
    race_read,      \* what the last map_value read
    tmp_pc,         \* where detect_beats is
    tmp_run,        \* the number of the run
    tmp_files,      \* the temporary files that exist
    tmp_made,       \* the temporary files made in this run
    tmp_ret         \* what the run returns or raises

um_vars == <<undo_stack, redo_stack, um_op, um_ret, um_pushes, um_undos>>

slew_vars == <<slew, slew_call, slew_out>>

hyst_vars == <<hyst, hyst_call>>

spike_vars == <<spike, spike_call, spike_before>>

stab_vars == <<cfg_heap, stabilizers, mgr, stab_assigned, stab_op, stab_arg>>

cal_vars == <<cal, cal_calls>>

rdp_vars == <<rdp_pc, rdp_in, rdp_epsilon, rdp_out>>

rec_vars == <<rec_heap, axis_actions, is_recording, active_axes, _buffer,
              _last_sample_time, rec_calls>>

pipe_vars == <<pipe, pipe_twin, pipe_t, pipe_call>>

snap_vars == <<snap_call>>

grid_vars == <<grid_bd, grid_call>>

poll_vars == <<_polling, poll_pc, poll_state, filters, _axis_locks, _state_lock, _current_state, _history, buttons, ui_pc, ui_read, ctrl_pressed>>

sess_vars == <<_recording_active, _btn_trigger_fired, qt_pc, qt_call, sess_call>>

dead_vars == <<dead, dead_call, dead_out>>

tempo_vars == <<tempo_call, ioi_call>>

beat_vars == <<beat_call>>

prog_vars == <<det_pc, det_progress, det_ret, trk_pc, trk_progress, trk_ret, trk_i, n_frames>>

recal_vars == <<recenter_call>>

smooth_vars == <<smooth_call>>

euro_vars == <<euro, euro_calls, euro_call>>

commit_vars == <<commit_call>>

hist_vars == <<hist_undo, hist_redo, hist_call>>

buf_vars == <<buf_call>>

lock_vars == <<lock_ctl, lock_stabs, lock_t, lock_call>>

race_vars == <<race_cal, race_ui, race_poll, race_written, race_read>>

tmp_vars == <<tmp_pc, tmp_run, tmp_files, tmp_made, tmp_ret>>

vars == <<um_vars, slew_vars, hyst_vars, spike_vars, stab_vars, cal_vars,
          rdp_vars, rec_vars,
          pipe_vars,
          snap_vars,
          grid_vars,
          poll_vars,
          sess_vars,
          dead_vars,
          tempo_vars,
          beat_vars,
          prog_vars,
          recal_vars,
          smooth_vars,
          euro_vars,
          commit_vars,
          hist_vars,
          buf_vars,
          lock_vars,
          race_vars,
          tmp_vars>>

(***************************************************************************)
(* UndoManager (recorder.py 28-68)                                         *)
(***************************************************************************)

\* UndoManager.__init__'s default max_history
max_history == 100

\* push calls between two clears: enough to fill the stack and evict
MaxPushes == 102

\* undo calls between two clears
MaxUndoCalls == 2

\* a bug: the newest entry is dropped instead of the oldest
PushedNewestDropped(stack, item) ==
    LET appended == Append(stack, item)
    IN  IF Len(appended) > max_history
        THEN SubSeq(appended, 1, Len(appended) - 1)
        ELSE appended

\* push's effect on the undo stack: append, then pop(0) when over max_history
Pushed(stack, item) ==
    LET appended == Append(stack, item)
    IN  IF Len(appended) > max_history THEN Tail(appended) ELSE appended

\* list.pop(): the list without its last entry
Popped(stack) == SubSeq(stack, 1, Len(stack) - 1)

Top(stack) == stack[Len(stack)]

UndoManager_init ==
    /\ undo_stack = <<>>
    /\ redo_stack = <<>>
    /\ um_op = "init"
    /\ um_ret = None
    /\ um_pushes = 0
    /\ um_undos = 0

\* push(action_type, segment, previous_actions); the entry is identified by
\* the number of the push call that made it
UndoManager_push ==
    /\ um_pushes < MaxPushes
    /\ undo_stack' = Pushed(undo_stack, um_pushes + 1)
    /\ redo_stack' = <<>>
    /\ um_pushes' = um_pushes + 1
    /\ um_op' = "push"
    /\ um_ret' = None
    /\ UNCHANGED um_undos

UndoManager_undo ==
    /\ um_undos < MaxUndoCalls
    /\ um_undos' = um_undos + 1
    /\ um_op' = "undo"
    /\ IF undo_stack = <<>>
       THEN /\ um_ret' = None
            /\ UNCHANGED <<undo_stack, redo_stack>>
       ELSE /\ undo_stack' = Popped(undo_stack)
            /\ redo_stack' = Append(redo_stack, Top(undo_stack))
            /\ um_ret' = Some(Top(undo_stack))
    /\ UNCHANGED um_pushes

UndoManager_redo ==
    /\ um_op' = "redo"
    /\ IF redo_stack = <<>>
       THEN /\ um_ret' = None
            /\ UNCHANGED <<undo_stack, redo_stack>>
       ELSE /\ redo_stack' = Popped(redo_stack)
            /\ undo_stack' = Append(undo_stack, Top(redo_stack))
            /\ um_ret' = Some(Top(redo_stack))
    /\ UNCHANGED <<um_pushes, um_undos>>

UndoManager_clear ==
    /\ undo_stack' = <<>>
    /\ redo_stack' = <<>>
    /\ um_op' = "clear"
    /\ um_ret' = None
    /\ um_pushes' = 0
    /\ um_undos' = 0


(***************************************************************************)
(* SlewRateLimiter (stabilization.py 106-147).  Values and max_rate are in *)
(* tenths of a raw unit, times in whole seconds.                           *)
(***************************************************************************)

\* the values the model feeds the limiter: 2.5 raw units apart
SlewMaxX == 2

SlewInputs == {25 * k : k \in -SlewMaxX..SlewMaxX}

\* the timestamps the model feeds the limiter, in any order
SlewMaxT == 3

\* slew_max_rate of the presets heavy, medium and light (3.0, 5.0, 8.0)
SlewRates == {30, 50, 80}

\* math.copysign(magnitude, sign)
CopySign(magnitude, sign) == IF sign < 0 THEN -Abs(magnitude) ELSE Abs(magnitude)

\* a bug: the limit is not applied
SlewUnclamped(delta, max_delta) == delta

\* lines 138-139: clamp delta to +-max_delta
SlewClamped(delta, max_delta) ==
    IF Abs(delta) > max_delta THEN CopySign(max_delta, delta) ELSE delta

\* SlewRateLimiter.__init__
SlewRateLimiter_new(max_rate) ==
    [max_rate |-> max_rate, prev |-> None, t_prev |-> None]

\* SlewRateLimiter.filter(x, t): the object afterwards and the value returned
SlewRateLimiter_filter(self, x, t) ==
    IF self.prev = None
    THEN [self |-> [self EXCEPT !.prev = Some(x), !.t_prev = Some(t)], ret |-> x]
    ELSE LET dt == t - self.t_prev[1]
         IN  IF dt <= 0
             THEN [self |-> self, ret |-> self.prev[1]]
             ELSE LET max_delta == self.max_rate * dt
                      delta == SlewClamped(x - self.prev[1], max_delta)
                      result == self.prev[1] + delta
                  IN  [self |-> [self EXCEPT !.prev = Some(result),
                                             !.t_prev = Some(t)],
                       ret |-> result]

SlewRateLimiter_reset(self) == [self EXCEPT !.prev = None, !.t_prev = None]

SlewInit ==
    /\ slew = SlewRateLimiter_new(50)
    /\ slew_call = None
    /\ slew_out = None

SlewFilterCall ==
    \E x \in SlewInputs, t \in 0..SlewMaxT :
        LET r == SlewRateLimiter_filter(slew, x, t)
        IN  /\ slew' = r.self
            /\ slew_call' = Some([x |-> x, t |-> t, before |-> slew, ret |-> r.ret])
            /\ slew_out' = IF slew_call = None THEN None ELSE Some(slew_call[1].ret)

SlewResetCall ==
    /\ slew' = SlewRateLimiter_reset(slew)
    /\ slew_call' = None
    /\ slew_out' = None

\* AxisStabilizer._apply_config assigns max_rate (line 486)
SlewConfigure ==
    \E rate \in SlewRates :
        /\ slew' = [slew EXCEPT !.max_rate = rate]
        /\ UNCHANGED <<slew_call, slew_out>>

(***************************************************************************)
(* HysteresisFilter (stabilization.py 299-345).  Values are mapped         *)
(* integers, band is in tenths of a mapped unit.                           *)
(***************************************************************************)

\* the mapped values the model feeds the filter: 0..HystMaxValue
HystMaxValue == 7

\* hysteresis_band of the presets light, medium and heavy (1.0, 1.5, 2.5)
HystBands == {10, 15, 25}

\* a bug: a reversal needs only band, not 2 * band
HystReversesAtBand(delta, band) == 10 * Abs(delta) >= band

\* line 336: abs(delta) >= self.band * 2
HystReverses(delta, band) == 10 * Abs(delta) >= band * 2

\* a bug: the comparison is strict
HystLatchesStrictly(delta, band) == 10 * Abs(delta) > band

\* line 324: abs(delta) >= self.band
HystLatches(delta, band) == 10 * Abs(delta) >= band

HysteresisFilter_new(band) ==
    [band |-> band, last_emitted |-> None, direction |-> 0]

\* HysteresisFilter.filter(value): the object afterwards and the value returned
HysteresisFilter_filter(self, value) ==
    IF self.last_emitted = None
    THEN [self |-> [self EXCEPT !.last_emitted = Some(value)], ret |-> value]
    ELSE LET delta == value - self.last_emitted[1]
             newdir == IF delta > 0 THEN 1 ELSE -1
             keep == [self |-> self, ret |-> self.last_emitted[1]]
         IN  IF self.direction = 0
             THEN IF HystLatches(delta, self.band)
                  THEN [self |-> [self EXCEPT !.direction = newdir,
                                             !.last_emitted = Some(value)],
                        ret |-> value]
                  ELSE keep
             ELSE IF \/ self.direction > 0 /\ delta > 0
                     \/ self.direction < 0 /\ delta < 0
                  THEN [self |-> [self EXCEPT !.last_emitted = Some(value)],
                        ret |-> value]
                  ELSE IF HystReverses(delta, self.band)
                       THEN [self |-> [self EXCEPT !.direction = newdir,
                                                  !.last_emitted = Some(value)],
                             ret |-> value]
                       ELSE keep

HysteresisFilter_reset(self) ==
    [self EXCEPT !.last_emitted = None, !.direction = 0]

HystInit ==
    /\ hyst = HysteresisFilter_new(15)
    /\ hyst_call = None

HystFilterCall ==
    \E value \in 0..HystMaxValue :
        LET r == HysteresisFilter_filter(hyst, value)
        IN  /\ hyst' = r.self
            /\ hyst_call' = Some([value |-> value, before |-> hyst,
                                  after |-> r.self, ret |-> r.ret])

HystResetCall ==
    /\ hyst' = HysteresisFilter_reset(hyst)
    /\ hyst_call' = None

\* AxisStabilizer._apply_config assigns band (line 489)
HystConfigure ==
    \E band \in HystBands :
        /\ hyst' = [hyst EXCEPT !.band = band]
        /\ UNCHANGED hyst_call

(***************************************************************************)
(* SpikeRejector (stabilization.py 204-262).  Values and threshold are in  *)
(* tenths of a raw unit.  _held_t is written and never read: left out.     *)
(***************************************************************************)

\* the raw values the model feeds the rejector: 0..SpikeMaxX tenths
SpikeMaxX == 12

\* spike_threshold of the presets heavy, medium and light (0.3, 0.5, 0.8)
SpikeThresholds == {3, 5, 8}

\* a bug: a held sample is confirmed by any following sample
SpikeAlwaysConfirms(x, held, threshold) == TRUE

\* a bug: a held sample is never confirmed
SpikeNeverConfirms(x, held, threshold) == FALSE

\* line 235: abs(x - self._held) < self.threshold
SpikeConfirms(x, held, threshold) == Abs(x - held) < threshold

\* line 250: delta > self.threshold
SpikeSuspicious(x, prev, threshold) == Abs(x - prev) > threshold

SpikeRejector_new(threshold) ==
    [threshold |-> threshold, prev |-> None, held |-> None]

\* SpikeRejector.filter(x, t): the object afterwards and the value returned
SpikeRejector_filter(self, x) ==
    IF self.prev = None
    THEN [self |-> [self EXCEPT !.prev = Some(x)], ret |-> x]
    ELSE LET resolved ==
                 IF self.held # None
                 THEN IF SpikeConfirms(x, self.held[1], self.threshold)
                      THEN [self EXCEPT !.prev = self.held, !.held = None]
                      ELSE [self EXCEPT !.held = None]
                 ELSE self
         IN  IF SpikeSuspicious(x, resolved.prev[1], self.threshold)
             THEN [self |-> [resolved EXCEPT !.held = Some(x)],
                   ret |-> resolved.prev[1]]
             ELSE [self |-> [resolved EXCEPT !.prev = Some(x)], ret |-> x]

SpikeRejector_reset(self) == [self EXCEPT !.prev = None, !.held = None]

SpikeInit ==
    /\ spike = SpikeRejector_new(5)
    /\ spike_call = None
    /\ spike_before = None

SpikeFilterCall ==
    \E x \in 0..SpikeMaxX :
        LET r == SpikeRejector_filter(spike, x)
        IN  /\ spike' = r.self
            /\ spike_call' = Some([x |-> x, before |-> spike,
                                   after |-> r.self, ret |-> r.ret])
            /\ spike_before' = spike_call

SpikeResetCall ==
    /\ spike' = SpikeRejector_reset(spike)
    /\ spike_call' = None
    /\ spike_before' = None

\* AxisStabilizer._apply_config assigns threshold (line 483)
SpikeConfigure ==
    \E threshold \in SpikeThresholds :
        /\ spike' = [spike EXCEPT !.threshold = threshold]
        /\ UNCHANGED <<spike_call, spike_before>>

(***************************************************************************)
(* StabilizationConfig, AxisStabilizer, StabilizationManager               *)
(* (stabilization.py 352-611).  A config is an object on a heap, held by   *)
(* reference: <<"preset", name>> is an entry of STABILIZATION_PRESETS,     *)
(* <<"user", i>> an object a caller built, <<"copy", axis>> the copy       *)
(* _adjust_config_for_axis made last for that axis.  Thresholds are in     *)
(* tenths of a unit, one_euro_beta in thousandths.                         *)
(***************************************************************************)

\* config objects built by callers
NumUserConfigs == 1

AXIS_NAMES == <<"x", "y", "z", "pitch", "yaw", "roll">>

Axes == {AXIS_NAMES[i] : i \in 1..Len(AXIS_NAMES)}

ROTATION_AXES == {"pitch", "yaw", "roll"}

PresetNames == {"off", "light", "medium", "heavy"}

\* the dataclass defaults of StabilizationConfig
DefaultConfig ==
    [spike_rejection_enabled |-> TRUE, spike_threshold |-> 5,
     one_euro_enabled |-> TRUE, one_euro_min_cutoff |-> 15, one_euro_beta |-> 7,
     slew_rate_enabled |-> TRUE, slew_max_rate |-> 50,
     jerk_limiter_enabled |-> FALSE, jerk_max_jerk |-> 200,
     deadzone_enabled |-> TRUE, deadzone_threshold |-> 10,
     hysteresis_enabled |-> TRUE, hysteresis_band |-> 15]

STABILIZATION_PRESETS ==
    [name \in PresetNames |->
        CASE name = "off" ->
                [DefaultConfig EXCEPT !.spike_rejection_enabled = FALSE,
                                      !.one_euro_enabled = FALSE,
                                      !.slew_rate_enabled = FALSE,
                                      !.jerk_limiter_enabled = FALSE,
                                      !.deadzone_enabled = FALSE,
                                      !.hysteresis_enabled = FALSE]
          [] name = "light" ->
                [DefaultConfig EXCEPT !.spike_threshold = 8,
                                      !.one_euro_min_cutoff = 25,
                                      !.one_euro_beta = 10,
                                      !.slew_max_rate = 80,
                                      !.deadzone_threshold = 5,
                                      !.hysteresis_band = 10]
          [] name = "medium" -> DefaultConfig
          [] name = "heavy" ->
                [DefaultConfig EXCEPT !.spike_threshold = 3,
                                      !.one_euro_min_cutoff = 8,
                                      !.one_euro_beta = 4,
                                      !.slew_max_rate = 30,
                                      !.jerk_limiter_enabled = TRUE,
                                      !.jerk_max_jerk = 150,
                                      !.deadzone_threshold = 20,
                                      !.hysteresis_band = 25]]

\* the i-th config a caller builds: its own thresholds, jerk limiter on
UserConfig(i) ==
    [DefaultConfig EXCEPT !.spike_threshold = 5 + i,
                          !.slew_max_rate = 50 + 10 * i,
                          !.jerk_limiter_enabled = TRUE,
                          !.jerk_max_jerk = 200 + i,
                          !.deadzone_threshold = 10 + i,
                          !.hysteresis_band = 15 + i]

PresetRefs == {<<"preset", name>> : name \in PresetNames}

UserRefs == {<<"user", i>> : i \in 1..NumUserConfigs}

CopyRefs == {<<"copy", axis>> : axis \in ROTATION_AXES}

\* the objects as their makers wrote them
Pristine(ref) ==
    IF ref[1] = "preset" THEN STABILIZATION_PRESETS[ref[2]] ELSE UserConfig(ref[2])

\* a bug: the thresholds are scaled in the object passed in
AdjustedInPlace(heap, ref, axis_name) ==
    IF axis_name \notin ROTATION_AXES
    THEN [heap |-> heap, ref |-> ref]
    ELSE [heap |-> [heap EXCEPT ![ref] =
                       [@ EXCEPT !.spike_threshold = heap[ref].spike_threshold * 60,
                                 !.slew_max_rate = heap[ref].slew_max_rate * 60,
                                 !.jerk_max_jerk = heap[ref].jerk_max_jerk * 60]],
          ref |-> ref]

\* _adjust_config_for_axis(config, axis_name): the heap afterwards and the
\* reference returned
_adjust_config_for_axis(heap, ref, axis_name) ==
    IF axis_name \notin ROTATION_AXES
    THEN [heap |-> heap, ref |-> ref]
    ELSE LET c == <<"copy", axis_name>>
         IN  [heap |-> [heap EXCEPT ![c] =
                           [heap[ref] EXCEPT
                               !.spike_threshold = heap[ref].spike_threshold * 60,
                               !.slew_max_rate = heap[ref].slew_max_rate * 60,
                               !.jerk_max_jerk = heap[ref].jerk_max_jerk * 60]],
              ref |-> c]

\* OneEuroFilter.__init__ (dx_prev and the parameters in thousandths)
OneEuroFilter_new(min_cutoff, beta, d_cutoff) ==
    [min_cutoff |-> min_cutoff, beta |-> beta, d_cutoff |-> d_cutoff,
     x_prev |-> None, dx_prev |-> 0, t_prev |-> None]

JerkLimiter_new(max_jerk) ==
    [max_jerk |-> max_jerk, prev |-> None, vel_prev |-> 0, t_prev |-> None]

DeadzoneFilter_new(threshold) == [threshold |-> threshold, last_emitted |-> None]

\* AxisStabilizer._apply_config: the filters take the effective config's values
AxisStabilizer_apply_config(self, heap) ==
    LET c == heap[self.effective_config]
    IN  [self EXCEPT !.spike.threshold = c.spike_threshold,
                     !.one_euro.min_cutoff = c.one_euro_min_cutoff,
                     !.one_euro.beta = c.one_euro_beta,
                     !.slew.max_rate = c.slew_max_rate,
                     !.jerk.max_jerk = c.jerk_max_jerk,
                     !.deadzone.threshold = c.deadzone_threshold,
                     !.hysteresis.band = c.hysteresis_band]

\* AxisStabilizer.set_config(config): the heap and the stabilizer afterwards
AxisStabilizer_set_config(self, heap, ref) ==
    LET adj == _adjust_config_for_axis(heap, ref, self.axis_name)
    IN  [heap |-> adj.heap,
         self |-> AxisStabilizer_apply_config(
                      [self EXCEPT !.config = ref, !.effective_config = adj.ref],
                      adj.heap)]

AxisStabilizer_get_config(self) == self.config

\* AxisStabilizer.__init__(axis_name, config): filters with their default
\* parameters, then _apply_config
AxisStabilizer_new(heap, axis_name, ref) ==
    LET adj == _adjust_config_for_axis(heap, ref, axis_name)
    IN  [heap |-> adj.heap,
         self |-> AxisStabilizer_apply_config(
                      [axis_name |-> axis_name, config |-> ref,
                       effective_config |-> adj.ref,
                       spike |-> SpikeRejector_new(5),
                       one_euro |-> OneEuroFilter_new(10, 7, 10),
                       slew |-> SlewRateLimiter_new(50),
                       jerk |-> JerkLimiter_new(200),
                       deadzone |-> DeadzoneFilter_new(10),
                       hysteresis |-> HysteresisFilter_new(15)],
                      adj.heap)]

\* the loop of StabilizationManager.__init__ over AXIS_NAMES, from the i-th on
RECURSIVE BuildStabilizers(_, _, _, _)
BuildStabilizers(heap, stabs, ref, i) ==
    IF i > Len(AXIS_NAMES)
    THEN [heap |-> heap, stabs |-> stabs]
    ELSE LET r == AxisStabilizer_new(heap, AXIS_NAMES[i], ref)
         IN  BuildStabilizers(r.heap, [stabs EXCEPT ![AXIS_NAMES[i]] = r.self],
                              ref, i + 1)

\* the loop of set_preset over self.stabilizers (in insertion order)
RECURSIVE SetConfigAll(_, _, _, _)
SetConfigAll(heap, stabs, ref, i) ==
    IF i > Len(AXIS_NAMES)
    THEN [heap |-> heap, stabs |-> stabs]
    ELSE LET r == AxisStabilizer_set_config(stabs[AXIS_NAMES[i]], heap, ref)
         IN  SetConfigAll(r.heap, [stabs EXCEPT ![AXIS_NAMES[i]] = r.self],
                          ref, i + 1)

\* the module's presets and the callers' objects; no copy made yet
InitialHeap ==
    [ref \in PresetRefs \cup UserRefs \cup CopyRefs |->
        IF ref \in CopyRefs THEN DefaultConfig ELSE Pristine(ref)]

\* StabilizationManager.__init__(preset = "medium")
StabInit ==
    LET built == BuildStabilizers(InitialHeap, [a \in Axes |-> None],
                                  <<"preset", "medium">>, 1)
    IN  /\ cfg_heap = built.heap
        /\ stabilizers = built.stabs
        /\ mgr = [preset_name |-> "medium", config |-> <<"preset", "medium">>]
        /\ stab_assigned = [a \in Axes |-> STABILIZATION_PRESETS["medium"]]
        /\ stab_op = "init"
        /\ stab_arg = [preset |-> "medium"]

\* StabilizationManager.set_preset(preset)
StabilizationManager_set_preset ==
    \E preset \in PresetNames \cup {"unknown"} :
        /\ stab_op' = "set_preset"
        /\ stab_arg' = [preset |-> preset]
        /\ IF preset \notin PresetNames
           THEN UNCHANGED <<cfg_heap, stabilizers, mgr, stab_assigned>>
           ELSE LET ref == <<"preset", preset>>
                    r == SetConfigAll(cfg_heap, stabilizers, ref, 1)
                IN  /\ mgr' = [preset_name |-> preset, config |-> ref]
                    /\ cfg_heap' = r.heap
                    /\ stabilizers' = r.stabs
                    /\ stab_assigned' = [a \in Axes |-> cfg_heap[ref]]

\* a bug: set_axis_config leaves the preset name as it is
NameKept(self) == self

\* line 589: self._preset_name = "custom"
NamedCustom(self) == [self EXCEPT !.preset_name = "custom"]

\* StabilizationManager.set_axis_config(axis_name, config), the config being
\* an object the caller built
StabilizationManager_set_axis_config ==
    \E axis_name \in Axes \cup {"unknown"}, ref \in UserRefs :
        /\ stab_op' = "set_axis_config"
        /\ stab_arg' = [axis_name |-> axis_name, config |-> ref]
        /\ IF axis_name \notin Axes
           THEN UNCHANGED <<cfg_heap, stabilizers, mgr, stab_assigned>>
           ELSE LET r == AxisStabilizer_set_config(stabilizers[axis_name],
                                                   cfg_heap, ref)
                IN  /\ cfg_heap' = r.heap
                    /\ stabilizers' = [stabilizers EXCEPT ![axis_name] = r.self]
                    /\ mgr' = NamedCustom(mgr)
                    /\ stab_assigned' =
                           [stab_assigned EXCEPT ![axis_name] = cfg_heap[ref]]

\* set_axis_config(axis_name, stabilizers[other].get_config()): a config read
\* back from a stabilizer (a caller's object or a preset) is assigned again
StabilizationManager_reassign_config ==
    \E axis_name \in Axes, other \in Axes :
        LET ref == AxisStabilizer_get_config(stabilizers[other])
            r == AxisStabilizer_set_config(stabilizers[axis_name], cfg_heap, ref)
        IN  /\ stab_op' = "set_axis_config(get_config())"
            /\ stab_arg' = [axis_name |-> axis_name, config |-> ref]
            /\ cfg_heap' = r.heap
            /\ stabilizers' = [stabilizers EXCEPT ![axis_name] = r.self]
            /\ mgr' = NamedCustom(mgr)
            /\ stab_assigned' = [stab_assigned EXCEPT ![axis_name] = cfg_heap[ref]]

(***************************************************************************)
(* AxisCalibration (vr_controller.py 150-180).  min_val, max_val, deadzone *)
(* and raw are in thousandths of a raw unit, sensitivity in tenths.  The   *)
(* float arithmetic of map_value is modelled by exact fractions            *)
(* [n |-> numerator, d |-> denominator > 0].                               *)
(***************************************************************************)

\* raw readings: 25 k thousandths for k in -CalMaxRaw..CalMaxRaw
CalMaxRaw == 12

RawInputs == {25 * k : k \in -CalMaxRaw..CalMaxRaw}

\* calibration bounds the model assigns (-0.3, 0.0, 0.3, 0.5, 1.0)
CalMins == {-300, 0, 500}

CalMaxs == {0, 300, 1000}

\* sensitivities the model assigns (0.5, 1.0, 2.0)
Sensitivities == {5, 10, 20}

Frac(n, d) == IF d < 0 THEN [n |-> -n, d |-> -d] ELSE [n |-> n, d |-> d]

FracAdd(a, b) == [n |-> a.n * b.d + b.n * a.d, d |-> a.d * b.d]

FracSub(a, b) == [n |-> a.n * b.d - b.n * a.d, d |-> a.d * b.d]

FracMul(a, b) == Frac(a.n * b.n, a.d * b.d)

FracLess(a, b) == a.n * b.d < b.n * a.d

FracMax(a, b) == IF FracLess(a, b) THEN b ELSE a

FracMin(a, b) == IF FracLess(b, a) THEN b ELSE a

\* a bug: ties are rounded away from zero (up, for the values met here)
RoundHalfUp(q) ==
    LET lo == q.n \div q.d
        rest == q.n - lo * q.d
    IN  IF 2 * rest >= q.d THEN lo + 1 ELSE lo

\* Python 3's round(x) on a float: to the nearest integer, a tie to the even
\* one
PyRound(q) ==
    LET lo == q.n \div q.d
        rest == q.n - lo * q.d
    IN  IF 2 * rest < q.d THEN lo
        ELSE IF 2 * rest > q.d THEN lo + 1
        ELSE IF lo % 2 = 0 THEN lo ELSE lo + 1

\* a bug: the normalized value is not clamped
Unclamped01(q) == q

\* line 174: max(0.0, min(1.0, normalized))
Clamped01(q) == FracMax(Frac(0, 1), FracMin(Frac(1, 1), q))

\* AxisCalibration(): the dataclass defaults
AxisCalibration_new ==
    [min_val |-> 0, max_val |-> 1000, inverted |-> FALSE, deadzone |-> 20,
     sensitivity |-> 10]

\* map_value steps 1-4 (lines 166-178), for max_val # min_val: the
\* normalized value as a fraction
Normalized(self, raw) ==
    LET range_val == self.max_val - self.min_val
        n1 == Frac(raw - self.min_val, range_val)
        n2 == IF self.sensitivity # 10
              THEN FracAdd(FracMul(FracSub(n1, Frac(1, 2)),
                                   Frac(self.sensitivity, 10)),
                           Frac(1, 2))
              ELSE n1
        n3 == Clamped01(n2)
    IN  IF self.inverted THEN FracSub(Frac(1, 1), n3) ELSE n3

\* AxisCalibration.map_value(raw)
AxisCalibration_map_value(self, raw) ==
    IF self.max_val - self.min_val = 0
    THEN 50
    ELSE PyRound(FracMul(Normalized(self, raw), Frac(100, 1)))

CalInit ==
    /\ cal = AxisCalibration_new
    /\ cal_calls = <<>>

\* calibrate_axis(axis, min_val, max_val) (vr_controller.py 612-616)
calibrate_axis ==
    \E lo \in CalMins, hi \in CalMaxs :
        /\ cal' = [cal EXCEPT !.min_val = lo, !.max_val = hi]
        /\ cal_calls' = <<>>

\* set_sensitivity(sensitivity) (vr_controller.py 618-621)
set_sensitivity ==
    \E sensitivity \in Sensitivities :
        /\ cal' = [cal EXCEPT !.sensitivity = sensitivity]
        /\ cal_calls' = <<>>

\* the inverted field is assigned
set_inverted ==
    \E inverted \in BOOLEAN :
        /\ cal' = [cal EXCEPT !.inverted = inverted]
        /\ cal_calls' = <<>>

MapValueCall ==
    \E raw \in RawInputs :
        LET call == [raw |-> raw, ret |-> AxisCalibration_map_value(cal, raw)]
        IN  /\ cal_calls' = IF cal_calls = <<>> THEN <<call>>
                            ELSE <<cal_calls[Len(cal_calls)], call>>
            /\ UNCHANGED cal

(***************************************************************************)
(* Point reduction (recorder.py 233-290).  An action is [at, pos], a point *)
(* of _rdp the pair <<at, pos>>; epsilon is in tenths of a position unit.  *)
(* _perpendicular_distance returns                                         *)
(*     |dy * px - 100 * py + 100 * ly1| / sqrt(100 * 100 + dy * dy)        *)
(* with px = (t - t0) / t_range * 100; the model keeps it exact as          *)
(* [a, t_range, dd], standing for a / (t_range * sqrt(dd)).  The branch    *)
(* for a zero denominator (line 287) cannot be taken: dd >= 10000.        *)
(***************************************************************************)

\* the longest input the model reduces
RdpMaxLen == 4

\* input timestamps are drawn from 0..RdpMaxT
RdpMaxT == 5

RdpPositions == {10, 12, 13, 50, 80}

\* rdp_epsilon: 0, the default 1.5, and 5.0
RdpEpsilons == {0, 15, 50}

\* the scenario of the specification's testable properties
RdpScenario == <<[at |-> 100, pos |-> 10], [at |-> 105, pos |-> 12],
                 [at |-> 900, pos |-> 80]>>

RECURSIVE GCD(_, _)
GCD(a, b) == IF b = 0 THEN a ELSE GCD(b, a % b)

\* Recorder._perpendicular_distance(point, line_start, line_end)
_perpendicular_distance(point, line_start, line_end) ==
    LET t_range == Max2(1, line_end[1] - line_start[1])
        dy == line_end[2] - line_start[2]
    IN  [a |-> Abs(dy * (point[1] - line_start[1]) * 100
                   - 100 * point[2] * t_range + 100 * line_start[2] * t_range),
         t_range |-> t_range,
         dd |-> 100 * 100 + dy * dy]

\* dist > epsilon, for epsilon >= 0: 10 a > epsilon * t_range * sqrt(dd),
\* compared by squares after cancelling the common factor; sqrt(dd) lies
\* between 100 and 142, which settles the clear cases without squaring
ExceedsEpsilon(dist, epsilon) ==
    LET g == GCD(10 * dist.a, epsilon * dist.t_range)
        l == IF g = 0 THEN 0 ELSE (10 * dist.a) \div g
        r == IF g = 0 THEN 0 ELSE (epsilon * dist.t_range) \div g
    IN  IF l <= 100 * r THEN l > 0 /\ r = 0
        ELSE IF l >= 142 * r THEN TRUE
        ELSE l * l > r * r * dist.dd

\* the distances of the interior points of a segment from its chord
ChordDistances(points) ==
    [i \in 2..(Len(points) - 1) |->
        _perpendicular_distance(points[i], points[1], points[Len(points)])]

\* a bug: the first interior point is taken for the farthest
FirstInterior(points) ==
    [idx |-> 2, dist |-> ChordDistances(points)[2], moved |-> TRUE]

\* lines 253-260: the first interior point of maximum distance, when some
\* distance is above 0 (max_idx and max_dist stay 0 otherwise)
Farthest(points) ==
    LET d == ChordDistances(points)
        best == CHOOSE i \in DOMAIN d :
                    /\ \A j \in DOMAIN d : d[j].a <= d[i].a
                    /\ \A j \in DOMAIN d : j < i => d[j].a < d[i].a
    IN  [idx |-> best, dist |-> d[best], moved |-> d[best].a > 0]

\* a bug: the junction point is kept twice
JoinedKeepingJunction(left, right) == left \o right

\* line 265: left[:-1] + right
Joined(left, right) == SubSeq(left, 1, Len(left) - 1) \o right

\* Recorder._rdp(points, epsilon), epsilon >= 0
RECURSIVE _rdp(_, _)
_rdp(points, epsilon) ==
    IF Len(points) <= 2
    THEN points
    ELSE LET far == Farthest(points)
         IN  IF far.moved /\ ExceedsEpsilon(far.dist, epsilon)
             THEN Joined(_rdp(SubSeq(points, 1, far.idx), epsilon),
                         _rdp(SubSeq(points, far.idx, Len(points)), epsilon))
             ELSE <<points[1], points[Len(points)]>>

\* Recorder._reduce_points(actions) with self.rdp_epsilon = epsilon
_reduce_points(actions, epsilon) ==
    IF Len(actions) <= 2
    THEN actions
    ELSE LET points == [i \in 1..Len(actions) |-> <<actions[i].at, actions[i].pos>>]
             reduced == _rdp(points, epsilon)
         IN  [i \in 1..Len(reduced) |-> [at |-> reduced[i][1], pos |-> reduced[i][2]]]

\* the i-th smallest member of a set of numbers
Nth(S, i) == CHOOSE t \in S : Cardinality({u \in S : u < t}) = i - 1

RdpInit ==
    /\ rdp_pc = "idle"
    /\ rdp_in = <<>>
    /\ rdp_epsilon = 15
    /\ rdp_out = <<>>

\* _reduce_points is called on actions with strictly ascending timestamps
ReducePointsCall ==
    /\ rdp_pc = "idle"
    /\ \E T \in SUBSET (0..RdpMaxT), epsilon \in RdpEpsilons :
          /\ Cardinality(T) <= RdpMaxLen
          /\ \E ps \in [1..Cardinality(T) -> RdpPositions] :
                LET actions == [i \in 1..Cardinality(T) |->
                                   [at |-> Nth(T, i), pos |-> ps[i]]]
                IN  /\ rdp_in' = actions
                    /\ rdp_epsilon' = epsilon
                    /\ rdp_out' = _reduce_points(actions, epsilon)
                    /\ rdp_pc' = "done"

\* _reduce_points is called on the scenario's actions, epsilon 1.5
ReduceScenarioCall ==
    /\ rdp_pc = "idle"
    /\ rdp_in' = RdpScenario
    /\ rdp_epsilon' = 15
    /\ rdp_out' = _reduce_points(RdpScenario, 15)
    /\ rdp_pc' = "done"

(***************************************************************************)
(* Recorder and the project's axes (recorder.py 71-338, funscript_io.py   *)
(* 68-143), and beat-snap (main_window.py 1485-1575).                     *)
(*                                                                         *)
(* FunscriptAction objects are mutated in place and shared between an      *)
(* axis's list and the undo entries, so they live in rec_heap and lists    *)
(* hold references (indices into rec_heap).  References are renumbered     *)
(* after every call in order of first use, unreferenced objects dropped:   *)
(* which number an object has is not observable.  Recorder's undo_manager  *)
(* is the UndoManager above; its entries are                               *)
(* [type, segment: [axis_name, actions, start_ms, end_ms], previous].      *)
(* Recorder._record_start_ms and RecordingSegment.timestamp are written    *)
(* and never read; they are left out.  point_reduction_enabled keeps its   *)
(* default, True.                                                          *)
(***************************************************************************)

\* Recorder.min_interval_ms
min_interval_ms == 11

\* Recorder.rdp_epsilon, in tenths
Recorder_rdp_epsilon == 15

\* undo entries pushed in one behaviour
RecMaxPushes == 2

\* recordings started in one behaviour
RecMaxRecordings == 1

\* Recorder.undo calls in one behaviour
RecMaxUndos == 2

\* AXIS_DEFINITIONS[axis_name]["controller_axis"]
AXIS_DEFINITIONS ==
    [stroke |-> "y", surge |-> "z", sway |-> "x",
     twist |-> "yaw", roll |-> "roll", pitch |-> "pitch"]

\* the axes of the project that the model records and edits
RecAxisOrder == <<"stroke", "surge">>

RecAxes == {RecAxisOrder[i] : i \in DOMAIN RecAxisOrder}

Last(s) == s[Len(s)]

Front(s) == SubSeq(s, 1, Len(s) - 1)

\* the entries of s, each once, in order of first occurrence
RECURSIVE Distinct(_)
Distinct(s) ==
    IF s = <<>> THEN <<>>
    ELSE LET d == Distinct(Front(s))
         IN  IF \E i \in DOMAIN d : d[i] = Last(s) THEN d ELSE Append(d, Last(s))

IndexIn(s, x) == CHOOSE i \in DOMAIN s : s[i] = x

RECURSIVE SumSeq(_)
SumSeq(s) == IF s = <<>> THEN 0 ELSE Head(s) + SumSeq(Tail(s))

\* the (at, pos) content of a list of references
Values(heap, ids) == [i \in DOMAIN ids |-> heap[ids[i]]]

\* new objects with the given content: the grown heap and their references
Allocated(heap, values) ==
    [heap |-> heap \o values,
     ids |-> [i \in DOMAIN values |-> Len(heap) + i]]

\* copy.deepcopy(list of actions): one new object per distinct object
DeepCopy(heap, ids) ==
    LET d == Distinct(ids)
    IN  [heap |-> heap \o Values(heap, d),
         ids |-> [i \in DOMAIN ids |-> Len(heap) + IndexIn(d, ids[i])]]

\* list.sort(key=lambda a: a.at) is stable: x goes behind every entry whose
\* timestamp is not later than its own
InsertedByAt(heap, sorted, x) ==
    LET k == Cardinality({i \in DOMAIN sorted : heap[sorted[i]].at <= heap[x].at})
    IN  SubSeq(sorted, 1, k) \o <<x>> \o SubSeq(sorted, k + 1, Len(sorted))

\* FunscriptAxis.sort_actions
RECURSIVE sort_actions(_, _)
sort_actions(heap, actions) ==
    IF actions = <<>> THEN <<>>
    ELSE InsertedByAt(heap, sort_actions(heap, Front(actions)), Last(actions))

\* lines 83-86: of the actions at one timestamp the last is kept
RECURSIVE LastPerTimestamp(_, _)
LastPerTimestamp(heap, sorted) ==
    IF sorted = <<>> THEN <<>>
    ELSE IF \E j \in 2..Len(sorted) : heap[sorted[j]].at = heap[sorted[1]].at
         THEN LastPerTimestamp(heap, Tail(sorted))
         ELSE <<sorted[1]>> \o LastPerTimestamp(heap, Tail(sorted))

\* FunscriptAxis.remove_duplicates
remove_duplicates(heap, actions) ==
    sort_actions(heap, LastPerTimestamp(heap, sort_actions(heap, actions)))

\* FunscriptAxis.get_actions_in_range
get_actions_in_range(heap, actions, start_ms, end_ms) ==
    SelectSeq(actions, LAMBDA a : start_ms <= heap[a].at /\ heap[a].at <= end_ms)

\* FunscriptAxis.remove_actions_in_range
remove_actions_in_range(heap, actions, start_ms, end_ms) ==
    SelectSeq(actions, LAMBDA a : ~(start_ms <= heap[a].at /\ heap[a].at <= end_ms))

MinAt(heap, ids) ==
    CHOOSE t \in {heap[ids[i]].at : i \in DOMAIN ids} :
        \A i \in DOMAIN ids : t <= heap[ids[i]].at

MaxAt(heap, ids) ==
    CHOOSE t \in {heap[ids[i]].at : i \in DOMAIN ids} :
        \A i \in DOMAIN ids : t >= heap[ids[i]].at

\* FunscriptAxis.add_actions
add_actions(heap, actions, new_actions) ==
    IF new_actions = <<>> THEN actions
    ELSE sort_actions(heap,
             remove_actions_in_range(heap, actions, MinAt(heap, new_actions),
                                     MaxAt(heap, new_actions))
             \o new_actions)

RecordingSegment(axis_name, actions, start_ms, end_ms) ==
    [axis_name |-> axis_name, actions |-> actions,
     start_ms |-> start_ms, end_ms |-> end_ms]

UndoEntry(action_type, segment, previous_actions) ==
    [type |-> action_type, segment |-> segment, previous |-> previous_actions]

RECURSIVE StackRefs(_)
StackRefs(stack) ==
    IF stack = <<>> THEN <<>>
    ELSE Head(stack).segment.actions \o Head(stack).previous \o StackRefs(Tail(stack))

RECURSIVE BufferRefs(_)
BufferRefs(buffer) ==
    IF buffer = <<>> THEN <<>>
    ELSE Head(buffer).actions \o BufferRefs(Tail(buffer))

RECURSIVE AxesRefs(_, _)
AxesRefs(axes, order) ==
    IF order = <<>> THEN <<>>
    ELSE axes[Head(order)] \o AxesRefs(axes, Tail(order))

\* the state a call leaves behind, references renumbered in order of first
\* use (axes, buffer, undo stack, redo stack)
Stored(heap, axes, buffer, undo, redo) ==
    LET live == Distinct(AxesRefs(axes, RecAxisOrder) \o BufferRefs(buffer)
                         \o StackRefs(undo) \o StackRefs(redo))
        Ren(ids) == [i \in DOMAIN ids |-> IndexIn(live, ids[i])]
        RenEntry(e) ==
            UndoEntry(e.type, [e.segment EXCEPT !.actions = Ren(@)], Ren(e.previous))
    IN  /\ rec_heap' = Values(heap, live)
        /\ axis_actions' = [a \in RecAxes |-> Ren(axes[a])]
        /\ _buffer' = [i \in DOMAIN buffer |->
                          [buffer[i] EXCEPT !.actions = Ren(@)]]
        /\ undo_stack' = [i \in DOMAIN undo |-> RenEntry(undo[i])]
        /\ redo_stack' = [i \in DOMAIN redo |-> RenEntry(redo[i])]

\* Recorder.__init__ on a new FunscriptProject
RecInit ==
    /\ rec_heap = <<>>
    /\ axis_actions = [a \in RecAxes |-> <<>>]
    /\ is_recording = FALSE
    /\ active_axes = {"stroke"}
    /\ _buffer = <<>>
    /\ _last_sample_time = <<>>
    /\ rec_calls = [pushes |-> 0, starts |-> 0, undos |-> 0]

\* the orders in which a set of axis names can be iterated
Orderings(S) ==
    {o \in [1..Cardinality(S) -> S] : \A i, j \in DOMAIN o : i # j => o[i] # o[j]}

\* Recorder.start_recording(video_time_ms); _buffer is a dict, kept as the
\* list of its items [axis_name, actions] in insertion order, which for the
\* keys made here is the iteration order of the set active_axes
Recorder_start_recording(video_time_ms) ==
    /\ is_recording' = TRUE
    /\ \E order \in Orderings(active_axes) :
          Stored(rec_heap, axis_actions,
                 [i \in DOMAIN order |-> [axis_name |-> order[i], actions |-> <<>>]],
                 undo_stack, redo_stack)
    /\ _last_sample_time' = [a \in active_axes |-> -1]
    /\ rec_calls' = [rec_calls EXCEPT !.starts = @ + 1]
    /\ UNCHANGED active_axes

\* the place of axis_name's item in the _buffer dict, 0 when it has none
BufferIndex(buffer, axis_name) ==
    IF \E i \in DOMAIN buffer : buffer[i].axis_name = axis_name
    THEN CHOOSE i \in DOMAIN buffer : buffer[i].axis_name = axis_name
    ELSE 0

\* a bug: a video time before the last sample's is let through
TooSoonAhead(last_time, video_time_ms) ==
    /\ last_time >= 0
    /\ 0 <= video_time_ms - last_time
    /\ (video_time_ms - last_time) < min_interval_ms

\* add_sample, lines 173-174: the minimum interval is not yet over
TooSoon(last_time, video_time_ms) ==
    last_time >= 0 /\ (video_time_ms - last_time) < min_interval_ms

\* the body of add_sample's loop for one axis; st is [heap, buffer, last]
AddSampleAxis(st, axis_name, video_time_ms, mapped_positions) ==
    LET controller_axis == AXIS_DEFINITIONS[axis_name]
        last_time == IF axis_name \in DOMAIN st.last THEN st.last[axis_name] ELSE -1
        k == BufferIndex(st.buffer, axis_name)
        new == Allocated(st.heap,
                   <<[at |-> video_time_ms,
                      pos |-> Max2(0, Min2(100, mapped_positions[controller_axis]))]>>)
    IN  IF controller_axis \notin DOMAIN mapped_positions THEN st
        ELSE IF TooSoon(last_time, video_time_ms) THEN st
        ELSE [heap |-> new.heap,
              buffer |-> IF k = 0
                         THEN Append(st.buffer,
                                     [axis_name |-> axis_name, actions |-> new.ids])
                         ELSE [st.buffer EXCEPT ![k].actions = @ \o new.ids],
              last |-> [a \in DOMAIN st.last \cup {axis_name} |->
                           IF a = axis_name THEN video_time_ms ELSE st.last[a]]]

RECURSIVE AddSampleAxes(_, _, _, _)
AddSampleAxes(st, order, video_time_ms, mapped_positions) ==
    IF order = <<>> THEN st
    ELSE AddSampleAxes(AddSampleAxis(st, Head(order), video_time_ms, mapped_positions),
                       Tail(order), video_time_ms, mapped_positions)

\* Recorder.add_sample(video_time_ms, mapped_positions)
Recorder_add_sample(video_time_ms, mapped_positions) ==
    IF ~is_recording
    THEN UNCHANGED <<rec_vars, undo_stack, redo_stack>>
    ELSE \E order \in Orderings(active_axes) :
            LET st == AddSampleAxes([heap |-> rec_heap, buffer |-> _buffer,
                                     last |-> _last_sample_time],
                                    order, video_time_ms, mapped_positions)
            IN  /\ Stored(st.heap, axis_actions, st.buffer, undo_stack, redo_stack)
                /\ _last_sample_time' = st.last
                /\ UNCHANGED <<is_recording, active_axes, rec_calls>>

\* lines 122-138 of stop_recording's loop: reduced is [heap, ids], the
\* actions to commit; st is [heap, axes, undo, redo, pushes]
Committed(st, axis_name, reduced) ==
    LET actions == reduced.ids
        segment == RecordingSegment(axis_name, actions,
                                    reduced.heap[actions[1]].at,
                                    reduced.heap[Last(actions)].at)
        axis == st.axes[axis_name]
        previous == get_actions_in_range(reduced.heap, axis,
                                         segment.start_ms, segment.end_ms)
        saved == DeepCopy(reduced.heap, previous)
    IN  [heap |-> saved.heap,
         axes |-> [st.axes EXCEPT ![axis_name] = add_actions(reduced.heap, axis, actions)],
         undo |-> Pushed(st.undo, UndoEntry("record", segment, saved.ids)),
         redo |-> <<>>,
         pushes |-> st.pushes + 1]

\* a buffer of three points is reduced as well
ReducesPointsOfThree(actions) == Len(actions) > 2

\* stop_recording, line 119: point_reduction_enabled is True, and the buffer
\* holds more than 3 points
ReducesPoints(actions) == Len(actions) > 3

\* the body of stop_recording's loop for one item of _buffer
StopAxis(st, item) ==
    IF item.actions = <<>> THEN st
    ELSE Committed(st, item.axis_name,
             IF ReducesPoints(item.actions)
             THEN Allocated(st.heap,
                      _reduce_points(Values(st.heap, item.actions),
                                     Recorder_rdp_epsilon))
             ELSE [heap |-> st.heap, ids |-> item.actions])

RECURSIVE StopAxes(_, _)
StopAxes(st, buffer) ==
    IF buffer = <<>> THEN st
    ELSE StopAxes(StopAxis(st, Head(buffer)), Tail(buffer))

\* Recorder.stop_recording()
Recorder_stop_recording ==
    LET st == StopAxes([heap |-> rec_heap, axes |-> axis_actions, undo |-> undo_stack,
                        redo |-> redo_stack, pushes |-> rec_calls.pushes], _buffer)
    IN  /\ is_recording' = FALSE
        /\ Stored(st.heap, st.axes, <<>>, st.undo, st.redo)
        /\ rec_calls' = [rec_calls EXCEPT !.pushes = st.pushes]
        /\ UNCHANGED <<active_axes, _last_sample_time>>

\* Recorder.cancel_recording()
Recorder_cancel_recording ==
    /\ is_recording' = FALSE
    /\ Stored(rec_heap, axis_actions, <<>>, undo_stack, redo_stack)
    /\ UNCHANGED <<active_axes, _last_sample_time, rec_calls>>

\* MainWindow._on_multi_axis_changed: recorder.active_axes = active
SetActiveAxes(active) ==
    /\ active_axes' = (IF active = {} THEN {"stroke"} ELSE active)
    /\ UNCHANGED <<rec_heap, axis_actions, is_recording, _buffer, _last_sample_time,
                   rec_calls, undo_stack, redo_stack>>

\* Recorder.undo()
Recorder_undo ==
    IF undo_stack = <<>>
    THEN /\ rec_calls' = [rec_calls EXCEPT !.undos = @ + 1]
         /\ UNCHANGED <<rec_heap, axis_actions, is_recording, active_axes, _buffer,
                        _last_sample_time, undo_stack, redo_stack>>
    ELSE LET item == Top(undo_stack)
             segment == item.segment
             removed == remove_actions_in_range(rec_heap, axis_actions[segment.axis_name],
                                                segment.start_ms, segment.end_ms)
             restored == IF item.previous # <<>>
                         THEN sort_actions(rec_heap, removed \o item.previous)
                         ELSE removed
         IN  /\ Stored(rec_heap, [axis_actions EXCEPT ![segment.axis_name] = restored],
                       _buffer, Popped(undo_stack), Append(redo_stack, item))
             /\ rec_calls' = [rec_calls EXCEPT !.undos = @ + 1]
             /\ UNCHANGED <<is_recording, active_axes, _last_sample_time>>

\* Recorder.redo()
Recorder_redo ==
    IF redo_stack = <<>>
    THEN UNCHANGED <<rec_vars, undo_stack, redo_stack>>
    ELSE LET item == Top(redo_stack)
             segment == item.segment
         IN  /\ Stored(rec_heap,
                       [axis_actions EXCEPT ![segment.axis_name] =
                           add_actions(rec_heap, @, segment.actions)],
                       _buffer, Append(undo_stack, item), Popped(redo_stack))
             /\ UNCHANGED <<is_recording, active_axes, _last_sample_time, rec_calls>>

\* Recorder.clear_range(axis_name, start_ms, end_ms)
Recorder_clear_range(axis_name, start_ms, end_ms) ==
    LET axis == axis_actions[axis_name]
        previous == DeepCopy(rec_heap,
                             get_actions_in_range(rec_heap, axis, start_ms, end_ms))
        segment == RecordingSegment(axis_name, <<>>, start_ms, end_ms)
    IN  IF previous.ids = <<>>
        THEN UNCHANGED <<rec_vars, undo_stack, redo_stack>>
        ELSE /\ Stored(previous.heap,
                       [axis_actions EXCEPT ![axis_name] =
                           remove_actions_in_range(rec_heap, axis, start_ms, end_ms)],
                       _buffer,
                       Pushed(undo_stack, UndoEntry("clear", segment, previous.ids)),
                       <<>>)
             /\ rec_calls' = [rec_calls EXCEPT !.pushes = @ + 1]
             /\ UNCHANGED <<is_recording, active_axes, _last_sample_time>>

\* a bug: the ends are averaged as if the data went on with zeros
_moving_average_padded(data, window) ==
    LET half == window \div 2
    IN  [i \in DOMAIN data |->
            LET start == Max2(0, (i - 1) - half)
                end == Min2(Len(data), (i - 1) + half + 1)
            IN  Frac(SumSeq(SubSeq(data, start + 1, end)), 2 * half + 1)]

\* Recorder._moving_average(data, window): the averages, as fractions
_moving_average(data, window) ==
    LET half == window \div 2
    IN  [i \in DOMAIN data |->
            LET start == Max2(0, (i - 1) - half)
                end == Min2(Len(data), (i - 1) + half + 1)
            IN  Frac(SumSeq(SubSeq(data, start + 1, end)), end - start)]

\* lines 318-319: for action, new_pos in zip(target_actions, smoothed)
RECURSIVE Smoothed(_, _, _)
Smoothed(heap, target_actions, smoothed) ==
    IF target_actions = <<>> THEN heap
    ELSE Smoothed([heap EXCEPT ![Head(target_actions)].pos =
                       Max2(0, Min2(100, PyRound(Head(smoothed))))],
                  Tail(target_actions), Tail(smoothed))

\* Recorder.apply_smoothing(axis_name, window_size, start_ms, end_ms);
\* start_ms and end_ms are Optional
Recorder_apply_smoothing(axis_name, window_size, start_ms, end_ms) ==
    LET axis == axis_actions[axis_name]
        ranged == start_ms # None /\ end_ms # None
        target_actions == IF ranged
                          THEN get_actions_in_range(rec_heap, axis, start_ms[1], end_ms[1])
                          ELSE axis
        original == DeepCopy(rec_heap, target_actions)
        positions == [i \in DOMAIN target_actions |-> rec_heap[target_actions[i]].pos]
        heap == Smoothed(original.heap, target_actions,
                         _moving_average(positions, window_size))
        copied == DeepCopy(heap, target_actions)
        segment == RecordingSegment(axis_name, copied.ids,
                       IF ranged THEN start_ms[1] ELSE rec_heap[target_actions[1]].at,
                       IF ranged THEN end_ms[1] ELSE rec_heap[Last(target_actions)].at)
    IN  IF axis = <<>> \/ Len(target_actions) < window_size
        THEN UNCHANGED <<rec_vars, undo_stack, redo_stack>>
        ELSE /\ Stored(copied.heap, axis_actions, _buffer,
                       Pushed(undo_stack, UndoEntry("smooth", segment, original.ids)),
                       <<>>)
             /\ rec_calls' = [rec_calls EXCEPT !.pushes = @ + 1]
             /\ UNCHANGED <<is_recording, active_axes, _last_sample_time>>

\* a bug: the step is cut to a whole millisecond before it is multiplied
GridPointWholeStep(start, end, s, subdivisions) ==
    start + s * ((end - start) \div subdivisions)

\* lines 49-51: int(start + s * step) with step = (end - start) /
\* subdivisions; the beats are ascending, so int() rounds down, and with up
\* to 5 subdivisions the float sum is on the same side of every whole
\* number as the exact one
GridPoint(start, end, s, subdivisions) ==
    start + (s * (end - start)) \div subdivisions

\* BeatData.get_beat_grid(); beat_data is [beats, bpm, subdivisions]
get_beat_grid(beat_data) ==
    LET beats == beat_data.beats
        subdivisions == beat_data.subdivisions
    IN  IF Len(beats) < 2 THEN beats
        ELSE Append([k \in 1..((Len(beats) - 1) * subdivisions) |->
                        LET i == ((k - 1) \div subdivisions) + 1
                            s == (k - 1) % subdivisions
                        IN  GridPoint(beats[i], beats[i + 1], s, subdivisions)],
                    Last(beats))

\* min(grid, key=lambda b: abs(b - at)): the first of the nearest
NearestGridPoint(grid, at) ==
    grid[CHOOSE i \in DOMAIN grid :
            /\ \A j \in DOMAIN grid : Abs(grid[i] - at) <= Abs(grid[j] - at)
            /\ \A j \in DOMAIN grid : j < i => Abs(grid[j] - at) > Abs(grid[i] - at)]

\* int(q) for the fraction n / d, d > 0: towards zero
TruncDiv(n, d) == IF n >= 0 THEN n \div d ELSE -((-n) \div d)

\* a bug: the tolerance is a whole beat interval
WithinBeat(dist, bpm) == dist * Max2(1, bpm) <= 60000

\* lines 1536 and 1544, for a whole number of bpm (the float arithmetic is
\* then exact): dist <= 60000.0 / max(1, bpm) * 0.6
WithinTolerance(dist, bpm) == dist * Max2(1, bpm) * 10 <= 60000 * 6

\* a bug: the new timestamp is rounded to the nearest millisecond, half a
\* millisecond up
LerpRounded(original_at, nearest, strength) ==
    RoundHalfUp(Frac(100 * original_at + (nearest - original_at) * strength, 100))

\* line 1547, blend being strength / 100.0:
\* int(original_at + (nearest - original_at) * blend)
Lerp(original_at, nearest, strength) ==
    TruncDiv(100 * original_at + (nearest - original_at) * strength, 100)

\* lines 1540-1551, the loop over target; st is [heap, snapped]
RECURSIVE SnapLoop(_, _, _, _, _)
SnapLoop(st, target, grid, bpm, strength) ==
    IF target = <<>> THEN st
    ELSE LET action == Head(target)
             original_at == st.heap[action].at
             nearest == NearestGridPoint(grid, original_at)
             dist == Abs(nearest - original_at)
             new_at == Lerp(original_at, nearest, strength)
             moved == WithinTolerance(dist, bpm) /\ new_at # original_at
         IN  SnapLoop(IF moved
                      THEN [heap |-> [st.heap EXCEPT ![action].at = new_at],
                            snapped |-> st.snapped + 1]
                      ELSE st,
                      Tail(target), grid, bpm, strength)

\* MainWindow._apply_beat_snap_with_strength(strength), with what it reads:
\* self._beat_data (Optional), self._active_axis and the timeline's
\* selection, (-1, -1) for none
_apply_beat_snap_with_strength(strength, beat_data, active_axis, selection) ==
    LET axis == axis_actions[active_axis]
        bd == beat_data[1]
        grid == get_beat_grid(bd)
        selected == selection[1] >= 0
        target0 == IF selected
                   THEN get_actions_in_range(rec_heap, axis, selection[1], selection[2])
                   ELSE axis
        previous == DeepCopy(rec_heap, target0)
        loop == SnapLoop([heap |-> previous.heap, snapped |-> 0], target0, grid,
                         bd.bpm, strength)
        sorted == sort_actions(loop.heap, axis)
        \* without a selection target is axis.actions itself, sorted in place
        \* before remove_duplicates makes the axis a new list
        target == IF selected THEN target0 ELSE sorted
        copied == DeepCopy(loop.heap, target)
        seg == RecordingSegment(active_axis, copied.ids,
                                loop.heap[target[1]].at, loop.heap[Last(target)].at)
        pushing == target # <<>> /\ loop.snapped > 0
    IN  IF beat_data = None \/ axis = <<>> \/ bd.beats = <<>>
        THEN UNCHANGED <<rec_vars, undo_stack, redo_stack>>
        ELSE /\ Stored(IF pushing THEN copied.heap ELSE loop.heap,
                       [axis_actions EXCEPT ![active_axis] =
                           remove_duplicates(loop.heap, sorted)],
                       _buffer,
                       IF pushing
                       THEN Pushed(undo_stack, UndoEntry("beat_snap", seg, previous.ids))
                       ELSE undo_stack,
                       IF pushing THEN <<>> ELSE redo_stack)
             /\ rec_calls' = [rec_calls EXCEPT !.pushes = IF pushing THEN @ + 1 ELSE @]
             /\ UNCHANGED <<is_recording, active_axes, _last_sample_time>>

\* the video times of the samples, in any order: 100 and 120 have the same
\* nearest grid point, 1000 is out of the beat grid's reach
RecTimes == {0, 100, 120, 1000}

\* ControllerState.mapped, by controller axis; 120 is out of range
RecMapped == {[y |-> 30], [y |-> 120, z |-> 70]}

\* the time ranges selected on the timeline
RecRanges == {<<0, 110>>, <<105, 1000>>}

NoSelection == <<-1, -1>>

RecWindows == {3}

RecStrengths == {50, 100}

\* the detected beats: 120 a minute, two beats, sixteenths, which makes
\* the grid 0, 125, .., 500
RecBeatData == [beats |-> <<0, 500>>, bpm |-> 120, subdivisions |-> 4]

StartRecording ==
    /\ rec_calls.starts < RecMaxRecordings
    /\ \E t \in RecTimes : Recorder_start_recording(t)

\* a call while not recording returns at once and is left out
AddSample ==
    /\ is_recording
    /\ \E t \in RecTimes, m \in RecMapped : Recorder_add_sample(t, m)

StopRecording ==
    /\ rec_calls.pushes + Len(_buffer) <= RecMaxPushes
    /\ Recorder_stop_recording

CancelRecording == Recorder_cancel_recording

\* of use only while a recording is under way or can still start
MultiAxisChanged ==
    /\ is_recording \/ rec_calls.starts < RecMaxRecordings
    /\ \E active \in SUBSET RecAxes : SetActiveAxes(active)

Undo ==
    /\ rec_calls.undos < RecMaxUndos
    /\ Recorder_undo

Redo == Recorder_redo

ClearRange ==
    /\ rec_calls.pushes < RecMaxPushes
    /\ \E a \in RecAxes, r \in RecRanges : Recorder_clear_range(a, r[1], r[2])

ApplySmoothing ==
    /\ rec_calls.pushes < RecMaxPushes
    /\ \E a \in RecAxes, w \in RecWindows :
          \/ Recorder_apply_smoothing(a, w, None, None)
          \/ \E r \in RecRanges : Recorder_apply_smoothing(a, w, Some(r[1]), Some(r[2]))

BeatSnap ==
    /\ rec_calls.pushes < RecMaxPushes
    /\ \E s \in RecStrengths, a \in RecAxes, sel \in RecRanges \cup {NoSelection} :
          _apply_beat_snap_with_strength(s, Some(RecBeatData), a, sel)


(***************************************************************************)
(* OneEuroFilter, JerkLimiter, DeadzoneFilter and the pipeline of one      *)
(* AxisStabilizer (stabilization.py 38-103, 150-201, 269-296, 500-552).    *)
(* Raw values are in tenths of a raw unit, times in whole seconds, mapped  *)
(* values are integers.  The float results are kept at the resolution of   *)
(* the model: a filtered value to the nearest tenth, a derivative to the   *)
(* nearest tenth per second, a velocity to the nearest thousandth per      *)
(* second; 2 * math.pi is 6.28 (157/25).                                   *)
(***************************************************************************)

\* the clock of the samples runs from 0 to PipeMaxT
PipeMaxT == 3

\* two samples are 1..PipeMaxStep seconds apart
PipeMaxStep == 2

\* the raw values fed to process, in tenths
PipeRaws == {0, 4, 60}

\* the mapped values fed to post_map
PipeMappeds == {0, 1, 3}

\* a config a caller builds: the jerk limiter alone, max_jerk 0.5
JerkOnlyConfig ==
    [STABILIZATION_PRESETS["off"] EXCEPT !.jerk_limiter_enabled = TRUE,
                                         !.jerk_max_jerk = 5]

\* the configs the pipeline is given: the presets and the caller's
PipeConfigRefs == PresetRefs \cup {<<"caller", "jerk_only">>}

PipeHeap ==
    [ref \in PipeConfigRefs |->
        IF ref[1] = "preset" THEN STABILIZATION_PRESETS[ref[2]] ELSE JerkOnlyConfig]

\* r alone, where the code returns r / (r + 1)
_smoothing_factor_raw(te, cutoff) ==
    Frac(157 * cutoff * te.n, 250000 * te.d)

\* OneEuroFilter._smoothing_factor(te, cutoff): te a fraction of a second,
\* cutoff in 1/10000 Hz; the factor as a fraction
_smoothing_factor(te, cutoff) ==
    LET r == Frac(157 * cutoff * te.n, 250000 * te.d)
    IN  Frac(r.n, r.n + r.d)

\* te of filter (lines 76-78): t - _t_prev, 1e-6 when that is not positive
Elapsed(dt) == IF dt <= 0 THEN Frac(1, 1000000) ELSE Frac(dt, 1)

\* filter's lines 80-92 when te is 1e-6.  r is 6.28e-6 * cutoff there, so
\* r + 1 is 1 at the resolution of the model: dx_hat is
\* r_d * (x - x_prev) * 1e6 + dx_prev, and a * (x - x_prev) is less than a
\* thousandth of a tenth, which leaves x_hat at x_prev.
FilterAtOnce(self, x) ==
    [dx_hat |-> PyRound(Frac(157 * 1000 * self.d_cutoff * (x - self.x_prev[1])
                               + 250000 * self.dx_prev, 250000)),
     x_hat |-> self.x_prev[1]]

\* filter's lines 80-92 for a te of whole seconds
FilterLater(self, x, te) ==
    LET a_d == _smoothing_factor(te, 1000 * self.d_cutoff)
        \* a_d * ((x - x_prev) / te) + (1 - a_d) * dx_prev
        dx_hat == PyRound(Frac(a_d.n * (x - self.x_prev[1]) * te.d
                                 + (a_d.d - a_d.n) * self.dx_prev * te.n,
                               a_d.d * te.n))
        cutoff == 1000 * self.min_cutoff + self.beta * Abs(dx_hat)
        a == _smoothing_factor(te, cutoff)
    IN  [dx_hat |-> dx_hat,
         x_hat |-> PyRound(Frac(a.n * x + (a.d - a.n) * self.x_prev[1], a.d))]

\* OneEuroFilter.filter(x, t): the object afterwards and the value returned
OneEuroFilter_filter(self, x, t) ==
    IF self.x_prev = None
    THEN [self |-> [self EXCEPT !.x_prev = Some(x), !.dx_prev = 0,
                                !.t_prev = Some(t)],
          ret |-> x]
    ELSE LET te == Elapsed(t - self.t_prev[1])
             f == IF te.d = 1 THEN FilterLater(self, x, te)
                              ELSE FilterAtOnce(self, x)
         IN  [self |-> [self EXCEPT !.x_prev = Some(f.x_hat),
                                    !.dx_prev = f.dx_hat, !.t_prev = Some(t)],
              ret |-> f.x_hat]

OneEuroFilter_reset(self) ==
    [self EXCEPT !.x_prev = None, !.dx_prev = 0, !.t_prev = None]

\* JerkLimiter.filter(x, t), vel_prev in thousandths per second: the object
\* afterwards and the value returned
JerkLimiter_filter(self, x, t) ==
    IF self.prev = None
    THEN [self |-> [self EXCEPT !.prev = Some(x), !.vel_prev = 0,
                                !.t_prev = Some(t)],
          ret |-> x]
    ELSE LET dt == t - self.t_prev[1]
         IN  IF dt <= 0
             THEN [self |-> self, ret |-> self.prev[1]]
             ELSE LET vel0 == PyRound(Frac(100 * (x - self.prev[1]), dt))
                      \* accel = (vel - vel_prev) / dt against max_jerk * dt
                      max_accel == 100 * self.max_jerk * dt
                      capped == Abs(vel0 - self.vel_prev) > max_accel * dt
                      vel == IF capped
                             THEN self.vel_prev
                                  + CopySign(max_accel, vel0 - self.vel_prev) * dt
                             ELSE vel0
                      result == PyRound(Frac(100 * self.prev[1] + vel * dt, 100))
                  IN  [self |-> [self EXCEPT !.prev = Some(result),
                                             !.vel_prev = vel,
                                             !.t_prev = Some(t)],
                       ret |-> result]

JerkLimiter_reset(self) ==
    [self EXCEPT !.prev = None, !.vel_prev = 0, !.t_prev = None]

\* a bug: no deadzone, every value is emitted
DeadzoneFilter_passes(self, value) ==
    [self |-> [self EXCEPT !.last_emitted = Some(value)], ret |-> value]

\* DeadzoneFilter.filter(value): the object afterwards and the value returned
DeadzoneFilter_filter(self, value) ==
    IF self.last_emitted = None
    THEN [self |-> [self EXCEPT !.last_emitted = Some(value)], ret |-> value]
    ELSE IF 10 * Abs(value - self.last_emitted[1]) >= self.threshold
         THEN [self |-> [self EXCEPT !.last_emitted = Some(value)], ret |-> value]
         ELSE [self |-> self, ret |-> self.last_emitted[1]]

DeadzoneFilter_reset(self) == [self EXCEPT !.last_emitted = None]

\* a bug: a stage runs whether or not its flag is set
StageAlways(enabled, through, bypass) == through

\* "if c.<stage>_enabled: val = self._<stage>.filter(val, ...)": the filter
\* and the value after the stage
Stage(enabled, through, bypass) == IF enabled THEN through ELSE bypass

\* AxisStabilizer.process(raw, t): the stabilizer afterwards and the value
\* returned
AxisStabilizer_process(self, heap, raw, t) ==
    LET c == heap[self.effective_config]
        s1 == Stage(c.spike_rejection_enabled,
                    SpikeRejector_filter(self.spike, raw),
                    [self |-> self.spike, ret |-> raw])
        s2 == Stage(c.one_euro_enabled,
                    OneEuroFilter_filter(self.one_euro, s1.ret, t),
                    [self |-> self.one_euro, ret |-> s1.ret])
        s3 == Stage(c.slew_rate_enabled,
                    SlewRateLimiter_filter(self.slew, s2.ret, t),
                    [self |-> self.slew, ret |-> s2.ret])
        s4 == Stage(c.jerk_limiter_enabled,
                    JerkLimiter_filter(self.jerk, s3.ret, t),
                    [self |-> self.jerk, ret |-> s3.ret])
    IN  [self |-> [self EXCEPT !.spike = s1.self, !.one_euro = s2.self,
                               !.slew = s3.self, !.jerk = s4.self],
         ret |-> s4.ret]

\* AxisStabilizer.post_map(mapped): the stabilizer afterwards and the value
\* returned
AxisStabilizer_post_map(self, heap, mapped) ==
    LET c == heap[self.effective_config]
        s1 == Stage(c.deadzone_enabled,
                    DeadzoneFilter_filter(self.deadzone, mapped),
                    [self |-> self.deadzone, ret |-> mapped])
        s2 == Stage(c.hysteresis_enabled,
                    HysteresisFilter_filter(self.hysteresis, s1.ret),
                    [self |-> self.hysteresis, ret |-> s1.ret])
    IN  [self |-> [self EXCEPT !.deadzone = s1.self, !.hysteresis = s2.self],
         ret |-> s2.ret]

\* a bug: reset leaves the hysteresis filter as it is
ResetButHysteresis(self) ==
    [self EXCEPT !.spike = SpikeRejector_reset(self.spike),
                 !.one_euro = OneEuroFilter_reset(self.one_euro),
                 !.slew = SlewRateLimiter_reset(self.slew),
                 !.jerk = JerkLimiter_reset(self.jerk),
                 !.deadzone = DeadzoneFilter_reset(self.deadzone)]

\* AxisStabilizer.reset()
AxisStabilizer_reset(self) ==
    [self EXCEPT !.spike = SpikeRejector_reset(self.spike),
                 !.one_euro = OneEuroFilter_reset(self.one_euro),
                 !.slew = SlewRateLimiter_reset(self.slew),
                 !.jerk = JerkLimiter_reset(self.jerk),
                 !.deadzone = DeadzoneFilter_reset(self.deadzone),
                 !.hysteresis = HysteresisFilter_reset(self.hysteresis)]

\* AxisStabilizer("y", STABILIZATION_PRESETS["medium"])
PipeInit ==
    /\ pipe = AxisStabilizer_new(PipeHeap, "y", <<"preset", "medium">>).self
    /\ pipe_twin = None
    /\ pipe_t = 0
    /\ pipe_call = [op |-> "init"]

\* the twin after the same call, if there is one
TwinAfter(r) == IF pipe_twin = None THEN None ELSE Some(r.self)

TwinRet(r) == IF pipe_twin = None THEN None ELSE Some(r.ret)

\* process(raw, t) at the next sample's time, on the stabilizer and its twin
PipeProcess ==
    \E raw \in PipeRaws, step \in 1..PipeMaxStep :
        LET t == pipe_t + step
            r == AxisStabilizer_process(pipe, PipeHeap, raw, t)
            rt == AxisStabilizer_process(pipe_twin[1], PipeHeap, raw, t)
        IN  /\ t <= PipeMaxT
            /\ pipe' = r.self
            /\ pipe_twin' = TwinAfter(rt)
            /\ pipe_t' = t
            /\ pipe_call' = [op |-> "process", arg |-> raw, t |-> t,
                             ret |-> r.ret, twin_ret |-> TwinRet(rt)]

\* post_map(mapped), on the stabilizer and its twin
PipePostMap ==
    \E mapped \in PipeMappeds :
        LET r == AxisStabilizer_post_map(pipe, PipeHeap, mapped)
            rt == AxisStabilizer_post_map(pipe_twin[1], PipeHeap, mapped)
        IN  /\ pipe' = r.self
            /\ pipe_twin' = TwinAfter(rt)
            /\ pipe_call' = [op |-> "post_map", arg |-> mapped, t |-> pipe_t,
                             ret |-> r.ret, twin_ret |-> TwinRet(rt)]
            /\ UNCHANGED pipe_t

\* set_config(config), on the stabilizer and its twin
PipeSetConfig ==
    \E ref \in PipeConfigRefs :
        /\ pipe' = AxisStabilizer_set_config(pipe, PipeHeap, ref).self
        /\ pipe_twin' = IF pipe_twin = None THEN None
                        ELSE Some(AxisStabilizer_set_config(pipe_twin[1],
                                                            PipeHeap, ref).self)
        /\ pipe_call' = [op |-> "set_config"]
        /\ UNCHANGED pipe_t

\* reset(); from here on the twin is a stabilizer constructed at this moment
\* with the same axis name and config
PipeReset ==
    /\ pipe' = AxisStabilizer_reset(pipe)
    /\ pipe_twin' = Some(AxisStabilizer_new(PipeHeap, pipe.axis_name,
                                            AxisStabilizer_get_config(pipe)).self)
    /\ pipe_call' = [op |-> "reset"]
    /\ UNCHANGED pipe_t

(***************************************************************************)
(* Beat snap on an imported axis: MainWindow._import_funscript,            *)
(* _snap_to_beats and _apply_beat_snap (main_window.py 1253-1265,          *)
(* 1485-1502), with the state of the recorder component.                   *)
(***************************************************************************)

\* the timestamps in the imported files: 100 and 140 lie 25 and 15 ms from
\* the grid point 125, 1000 lies beyond the tolerance of every grid point
SnapTimes == {100, 125, 140, 1000}

\* the timestamps of a well-formed file: ascending, none twice
SnapFiles ==
    {f \in UNION {[1..n -> SnapTimes] : n \in 0..Cardinality(SnapTimes)} :
        \A i, j \in DOMAIN f : i < j => f[i] < f[j]}

\* the "actions" of the file with these timestamps
FileActions(f) == [i \in DOMAIN f |-> [at |-> f[i], pos |-> f[i] \div 10]]

\* undo entries pushed by beat snaps
SnapMaxPushes == 1

\* positions of beat_snap_slider
SnapSliders == {0, 50, 100}

\* what timeline.get_selection() returns: <<130, 1000>> leaves out an
\* action at the grid point 125
SnapSelections == {NoSelection, <<0, 110>>, <<105, 1000>>, <<130, 1000>>}

\* FunscriptProject.import_funscript(filepath, axis_name), data being the
\* actions of the file: the axis is a new FunscriptAxis
import_funscript(data, axis_name) ==
    LET made == Allocated(rec_heap, data)
    IN  /\ Stored(made.heap, [axis_actions EXCEPT ![axis_name] = made.ids],
                  _buffer, undo_stack, redo_stack)
        /\ UNCHANGED <<is_recording, active_axes, _last_sample_time, rec_calls>>

\* no beat snap yet
SnapInit == snap_call = None

\* MainWindow._import_funscript
ImportFunscript ==
    \E f \in SnapFiles :
        /\ import_funscript(FileActions(f), "stroke")
        /\ snap_call' = None

\* what a beat-snap handler was called with and found: strength is what it
\* passed to _apply_beat_snap_with_strength, if it did
SnapCalled(via, slider, strength, beat_data, selection) ==
    Some([via |-> via, slider |-> slider, strength |-> strength,
          beat_data |-> beat_data, selection |-> selection,
          before |-> Values(rec_heap, axis_actions["stroke"])])

\* MainWindow._snap_to_beats
SnapToBeats ==
    \E slider \in SnapSliders, sel \in SnapSelections,
       bd \in {None, Some(RecBeatData)} :
        LET strength == IF slider = 0 THEN 100 ELSE slider
        IN  /\ rec_calls.pushes < SnapMaxPushes
            /\ _apply_beat_snap_with_strength(strength, bd, "stroke", sel)
            /\ snap_call' = SnapCalled("_snap_to_beats", slider, Some(strength),
                                       bd, sel)

\* MainWindow._apply_beat_snap
ApplyBeatSnap ==
    \E slider \in SnapSliders, sel \in SnapSelections,
       bd \in {None, Some(RecBeatData)} :
        /\ rec_calls.pushes < SnapMaxPushes
        /\ IF slider = 0
           THEN /\ UNCHANGED <<rec_vars, undo_stack, redo_stack>>
                /\ snap_call' = SnapCalled("_apply_beat_snap", slider, None, bd, sel)
           ELSE /\ _apply_beat_snap_with_strength(slider, bd, "stroke", sel)
                /\ snap_call' = SnapCalled("_apply_beat_snap", slider,
                                           Some(slider), bd, sel)

\* _apply_beat_snap_with_strength(strength) called as such, with any strength
\* of its documented range
ApplyBeatSnapWithStrength ==
    \E strength \in SnapSliders, sel \in SnapSelections,
       bd \in {None, Some(RecBeatData)} :
        /\ rec_calls.pushes < SnapMaxPushes
        /\ _apply_beat_snap_with_strength(strength, bd, "stroke", sel)
        /\ snap_call' = SnapCalled("_apply_beat_snap_with_strength", strength,
                                   Some(strength), bd, sel)

(***************************************************************************)
(* BeatData and its beat grid (beat_detection.py 31-53)                    *)
(***************************************************************************)

\* beat timestamps in ms
GridTimes == {0, 2, 10, 500, 1000, 2000}

\* a BeatData holds at most GridMaxBeats beats
GridMaxBeats == 3

\* its subdivisions
GridSubdivisions == {1, 3, 4}

\* beats as detect_beats builds them: ascending, none twice
GridBeats ==
    {b \in UNION {[1..n -> GridTimes] : n \in 0..GridMaxBeats} :
        \A i, j \in DOMAIN b : i < j => b[i] < b[j]}

\* BeatData(): the dataclass defaults
BeatData_new == [beats |-> <<>>, bpm |-> 0, subdivisions |-> 4]

GridInit ==
    /\ grid_bd = BeatData_new
    /\ grid_call = None

\* BeatData(beats=..., bpm=..., subdivisions=...), as detect_beats and the
\* project loader build it
BeatDataBuilt ==
    \E beats \in GridBeats, subdivisions \in GridSubdivisions :
        /\ grid_bd' = [beats |-> beats, bpm |-> 120, subdivisions |-> subdivisions]
        /\ grid_call' = None

\* get_beat_grid() on the BeatData: the list returned is a new list
GetBeatGridCall ==
    /\ grid_call = None
    /\ grid_call' = Some([self |-> grid_bd, ret |-> get_beat_grid(grid_bd)])
    /\ UNCHANGED grid_bd

(***************************************************************************)
(* VRControllerInput: the polling thread and the interactive thread        *)
(* (vr_controller.py 224-281, 409-610, 668-705).  A ControllerState is an  *)
(* object held by reference: id 0 is the one __init__ made, id k the one   *)
(* the k-th poll_once made.  Of the buttons the trigger is modelled, of    *)
(* the filters whether they hold a sample.  The two threads interleave     *)
(* between any two of the steps below.                                     *)
(***************************************************************************)

\* deque(maxlen=50)
history_maxlen == 50

\* poll_once calls while the state slot is watched: enough to fill _history
SlotMaxSamples == 52

\* poll_once calls while the filters are reset and reconfigured
FiltMaxSamples == 2

\* poll_once calls while the buttons are watched
BtnMaxSamples == 3

\* callbacks registered for the trigger
MaxCallbacks == 2

\* what a registered callback does when called
CallbackKinds == {"returns", "raises"}

\* ControllerState(timestamp=time.time()); complete once poll_once returns it
ControllerState(id) ==
    [id |-> id, is_tracked |-> FALSE, trigger_pressed |-> FALSE,
     complete |-> FALSE]

\* VRControllerInput.__init__
PollInit ==
    /\ _polling = FALSE
    /\ poll_pc = "not_started"
    /\ poll_state = [ControllerState(0) EXCEPT !.complete = TRUE]
    /\ filters = [kalman |-> FALSE, premap |-> FALSE, postmap |-> FALSE,
                  preset |-> "medium"]
    /\ _axis_locks = FALSE
    /\ _state_lock = "free"
    /\ _current_state = 0
    /\ _history = <<>>
    /\ buttons = [prev_trigger |-> FALSE, callbacks |-> <<>>, next |-> 0,
                  edge |-> FALSE, invoked |-> <<>>]
    /\ ui_pc = "idle"
    /\ ui_read = 0
    /\ ctrl_pressed = <<>>

\* start_polling()
StartPolling ==
    /\ ~_polling
    /\ _polling' = TRUE
    /\ poll_pc' = "loop"
    /\ UNCHANGED <<poll_state, filters, _axis_locks, _state_lock, _current_state,
                   _history, buttons, ui_pc, ui_read, ctrl_pressed>>

\* _poll_loop: "while self._polling", and poll_once makes its ControllerState
PollOnceBegins(cap) ==
    /\ poll_pc = "loop"
    /\ _polling
    /\ poll_state.id < cap
    /\ poll_state' = ControllerState(poll_state.id + 1)
    /\ poll_pc' = "poll_once"
    /\ UNCHANGED <<_polling, filters, _axis_locks, _state_lock, _current_state,
                   _history, buttons, ui_pc, ui_read, ctrl_pressed>>

\* poll_once returns early: not initialized, or the pose is not valid
PollOnceUntracked ==
    /\ poll_pc = "poll_once"
    /\ poll_state' = [poll_state EXCEPT !.complete = TRUE]
    /\ ctrl_pressed' = Append(ctrl_pressed, FALSE)
    /\ poll_pc' = "returned"
    /\ UNCHANGED <<_polling, filters, _axis_locks, _state_lock, _current_state,
                   _history, buttons, ui_pc, ui_read>>

\* poll_once step 1: the Kalman filters are updated
PollOnceKalman ==
    /\ poll_pc = "poll_once"
    /\ poll_state' = [poll_state EXCEPT !.is_tracked = TRUE]
    /\ filters' = [filters EXCEPT !.kalman = TRUE]
    /\ poll_pc' = "kalman_done"
    /\ UNCHANGED <<_polling, _axis_locks, _state_lock, _current_state, _history,
                   buttons, ui_pc, ui_read, ctrl_pressed>>

\* poll_once step 2: _stabilization.process on every axis
PollOncePreMap ==
    /\ poll_pc = "kalman_done"
    /\ filters' = [filters EXCEPT !.premap = TRUE]
    /\ poll_pc' = "premap_done"
    /\ UNCHANGED <<_polling, poll_state, _axis_locks, _state_lock, _current_state,
                   _history, buttons, ui_pc, ui_read, ctrl_pressed>>

\* poll_once steps 3-5 and the buttons: _stabilization.post_map on every
\* axis, the trigger is read, the state is returned
PollOncePostMap(pressed) ==
    /\ poll_pc = "premap_done"
    /\ filters' = [filters EXCEPT !.postmap = TRUE]
    /\ \E p \in pressed :
          /\ poll_state' = [poll_state EXCEPT !.trigger_pressed = p,
                                               !.complete = TRUE]
          /\ ctrl_pressed' = Append(ctrl_pressed, p)
    /\ poll_pc' = "returned"
    /\ UNCHANGED <<_polling, _axis_locks, _state_lock, _current_state, _history,
                   buttons, ui_pc, ui_read>>

\* "with self._state_lock:" in _poll_loop
PollAcquires ==
    /\ poll_pc = "returned"
    /\ _state_lock = "free"
    /\ _state_lock' = "poll"
    /\ poll_pc' = "locked"
    /\ UNCHANGED <<_polling, poll_state, filters, _axis_locks, _current_state,
                   _history, buttons, ui_pc, ui_read, ctrl_pressed>>

\* self._current_state = state
PollStores ==
    /\ poll_pc = "locked"
    /\ _current_state' = poll_state.id
    /\ poll_pc' = "stored"
    /\ UNCHANGED <<_polling, poll_state, filters, _axis_locks, _state_lock,
                   _history, buttons, ui_pc, ui_read, ctrl_pressed>>

\* a bug: the deque has no maxlen
AppendedUnbounded(history, state) == Append(history, state)

\* deque.append with maxlen: a full deque drops its oldest entry
Appended(history, state) ==
    IF Len(history) = history_maxlen
    THEN Append(Tail(history), state)
    ELSE Append(history, state)

\* self._history.append(state)
PollAppends ==
    /\ poll_pc = "stored"
    /\ _history' = Appended(_history, poll_state.id)
    /\ poll_pc' = "appended"
    /\ UNCHANGED <<_polling, poll_state, filters, _axis_locks, _state_lock,
                   _current_state, buttons, ui_pc, ui_read, ctrl_pressed>>

\* the end of the with block
PollReleases ==
    /\ poll_pc = "appended"
    /\ _state_lock' = "free"
    /\ poll_pc' = "edges"
    /\ UNCHANGED <<_polling, poll_state, filters, _axis_locks, _current_state,
                   _history, buttons, ui_pc, ui_read, ctrl_pressed>>

\* "if state.trigger_pressed and not self._prev_trigger:" and the start of
\* the loop over the callbacks
PollDetectsEdge ==
    /\ poll_pc = "edges"
    /\ LET edge == poll_state.trigger_pressed /\ ~buttons.prev_trigger
       IN  /\ buttons' = [buttons EXCEPT !.edge = edge, !.next = 1,
                                         !.invoked = <<>>]
           /\ poll_pc' = IF edge THEN "callbacks" ELSE "update_prev"
    /\ UNCHANGED <<_polling, poll_state, filters, _axis_locks, _state_lock,
                   _current_state, _history, ui_pc, ui_read, ctrl_pressed>>

\* a bug: the call is not wrapped in try/except, the exception ends the thread
AfterUnguardedCall(kind) == IF kind = "raises" THEN "dead" ELSE "callbacks"

\* "try: cb() except Exception: pass": the loop goes on either way
AfterCall(kind) == "callbacks"

\* the loop over _button_callbacks["trigger"] calls the next callback
PollInvokesCallback ==
    /\ poll_pc = "callbacks"
    /\ buttons.next <= Len(buttons.callbacks)
    /\ buttons' = [buttons EXCEPT !.next = @ + 1,
                                  !.invoked = Append(@, buttons.next)]
    /\ poll_pc' = AfterCall(buttons.callbacks[buttons.next])
    /\ UNCHANGED <<_polling, poll_state, filters, _axis_locks, _state_lock,
                   _current_state, _history, ui_pc, ui_read, ctrl_pressed>>

\* the loop over the callbacks is through the list
PollCallbacksDone ==
    /\ poll_pc = "callbacks"
    /\ buttons.next > Len(buttons.callbacks)
    /\ poll_pc' = "update_prev"
    /\ UNCHANGED <<_polling, poll_state, filters, _axis_locks, _state_lock,
                   _current_state, _history, buttons, ui_pc, ui_read, ctrl_pressed>>

\* self._prev_trigger = state.trigger_pressed, the general callbacks (none
\* registered) and the sleep
PollUpdatesPrev ==
    /\ poll_pc = "update_prev"
    /\ buttons' = [buttons EXCEPT !.prev_trigger = poll_state.trigger_pressed]
    /\ poll_pc' = "loop"
    /\ UNCHANGED <<_polling, poll_state, filters, _axis_locks, _state_lock,
                   _current_state, _history, ui_pc, ui_read, ctrl_pressed>>

\* get_current_state(): "with self._state_lock:"
GetCurrentStateAcquires ==
    /\ ui_pc = "idle"
    /\ _state_lock = "free"
    /\ _state_lock' = "ui"
    /\ ui_pc' = "get_current_state"
    /\ UNCHANGED <<_polling, poll_pc, poll_state, filters, _axis_locks,
                   _current_state, _history, buttons, ui_read, ctrl_pressed>>

\* get_current_state(): "return self._current_state" and the end of the with
\* block
GetCurrentStateReturns ==
    /\ ui_pc = "get_current_state"
    /\ ui_read' = _current_state
    /\ _state_lock' = "free"
    /\ ui_pc' = "idle"
    /\ UNCHANGED <<_polling, poll_pc, poll_state, filters, _axis_locks,
                   _current_state, _history, buttons, ctrl_pressed>>

\* reset_filters(), called by MainWindow._apply_calibration: the loop over
\* the Kalman filters
ResetFiltersKalman ==
    /\ ui_pc = "idle"
    /\ filters' = [filters EXCEPT !.kalman = FALSE]
    /\ ui_pc' = "reset_filters"
    /\ UNCHANGED <<_polling, poll_pc, poll_state, _axis_locks, _state_lock,
                   _current_state, _history, buttons, ui_read, ctrl_pressed>>

\* reset_filters(): self._stabilization.reset_all()
ResetFiltersStabilization ==
    /\ ui_pc = "reset_filters"
    /\ filters' = [filters EXCEPT !.premap = FALSE, !.postmap = FALSE]
    /\ ui_pc' = "idle"
    /\ UNCHANGED <<_polling, poll_pc, poll_state, _axis_locks, _state_lock,
                   _current_state, _history, buttons, ui_read, ctrl_pressed>>

\* set_stabilization_preset(preset): set_preset assigns the parameters of
\* every filter
SetStabilizationPreset ==
    /\ ui_pc = "idle"
    /\ \E preset \in {"medium", "heavy"} :
          filters' = [filters EXCEPT !.preset = preset]
    /\ UNCHANGED <<_polling, poll_pc, poll_state, _axis_locks, _state_lock,
                   _current_state, _history, buttons, ui_pc, ui_read, ctrl_pressed>>

\* lock_axis(axis): reads the current state and sets the flag
LockAxis ==
    /\ ui_pc = "idle"
    /\ _state_lock = "free"
    /\ ~_axis_locks
    /\ _axis_locks' = TRUE
    /\ UNCHANGED <<_polling, poll_pc, poll_state, filters, _state_lock,
                   _current_state, _history, buttons, ui_pc, ui_read, ctrl_pressed>>

\* unlock_axis(axis): clears the flag; self._stabilization.reset(axis) then
\* raises AttributeError, StabilizationManager having reset_all and
\* reset_axis but no reset, so that no filter is reset
UnlockAxis ==
    /\ ui_pc = "idle"
    /\ _axis_locks
    /\ _axis_locks' = FALSE
    /\ UNCHANGED <<_polling, poll_pc, poll_state, filters, _state_lock,
                   _current_state, _history, buttons, ui_pc, ui_read, ctrl_pressed>>

\* on_button_press("trigger", callback)
OnButtonPress ==
    /\ ui_pc = "idle"
    /\ Len(buttons.callbacks) < MaxCallbacks
    /\ \E kind \in CallbackKinds :
          buttons' = [buttons EXCEPT !.callbacks = Append(@, kind)]
    /\ UNCHANGED <<_polling, poll_pc, poll_state, filters, _axis_locks,
                   _state_lock, _current_state, _history, ui_pc, ui_read, ctrl_pressed>>

(***************************************************************************)
(* A recording session (recorder.py 99-179) as MainWindow drives it        *)
(* (main_window.py 139-166, 1017-1087).  The Recorder is called by the Qt  *)
(* thread alone, one handler at a time; add_sample is taken one axis of    *)
(* its loop at a time.  The polling thread takes part through the trigger  *)
(* callback, which sets a flag that a Qt timer looks at.                   *)
(***************************************************************************)

\* recordings started in one session
SessMaxRecordings == 2

\* video times of the calls
SessTimes == {100, 120}

\* Recorder and MainWindow after construction
SessInit ==
    /\ _recording_active = FALSE
    /\ _btn_trigger_fired = FALSE
    /\ qt_pc = "idle"
    /\ qt_call = <<>>
    /\ sess_call = [op |-> "init", tick |-> 0]

\* the Recorder method called now; tick tells one call from the next
Called(op) == sess_call' = [op |-> op, tick |-> 1 - sess_call.tick]

\* a bug: the trigger callback stops the recording itself, on the polling
\* thread
OnTriggerStops ==
    /\ is_recording
    /\ Recorder_stop_recording
    /\ Called("stop_recording")
    /\ _recording_active' = FALSE
    /\ UNCHANGED <<_btn_trigger_fired, qt_pc, qt_call>>

\* _on_trigger, called by the polling loop on a rising edge of the trigger
OnTrigger ==
    /\ ~_btn_trigger_fired
    /\ _btn_trigger_fired' = TRUE
    /\ UNCHANGED <<rec_vars, undo_stack, redo_stack, _recording_active, qt_pc,
                   qt_call, sess_call>>

\* _start_recording: recorder.start_recording(current_time)
SessStartRecording ==
    /\ qt_pc = "idle"
    /\ rec_calls.starts < SessMaxRecordings
    /\ \E t \in SessTimes : Recorder_start_recording(t)
    /\ Called("start_recording")
    /\ _recording_active' = TRUE
    /\ UNCHANGED <<_btn_trigger_fired, qt_pc, qt_call>>

\* _stop_recording: recorder.stop_recording()
SessStopRecording ==
    /\ qt_pc = "idle"
    /\ Recorder_stop_recording
    /\ Called("stop_recording")
    /\ _recording_active' = FALSE
    /\ UNCHANGED <<_btn_trigger_fired, qt_pc, qt_call>>

\* _cancel_recording: recorder.cancel_recording()
SessCancelRecording ==
    /\ qt_pc = "idle"
    /\ Recorder_cancel_recording
    /\ Called("cancel_recording")
    /\ _recording_active' = FALSE
    /\ UNCHANGED <<_btn_trigger_fired, qt_pc, qt_call>>

\* _check_controller_buttons on the Qt timer: the trigger toggles the
\* recording
CheckControllerButtons ==
    /\ qt_pc = "idle"
    /\ _btn_trigger_fired
    /\ _btn_trigger_fired' = FALSE
    /\ IF _recording_active
       THEN /\ Recorder_stop_recording
            /\ Called("stop_recording")
            /\ _recording_active' = FALSE
       ELSE /\ rec_calls.starts < SessMaxRecordings
            /\ \E t \in SessTimes : Recorder_start_recording(t)
            /\ Called("start_recording")
            /\ _recording_active' = TRUE
    /\ UNCHANGED <<qt_pc, qt_call>>

\* _on_multi_axis_changed
SessMultiAxisChanged ==
    /\ qt_pc = "idle"
    /\ rec_calls.starts < SessMaxRecordings
    /\ \E active \in SUBSET RecAxes : SetActiveAxes(active)
    /\ Called("active_axes")
    /\ UNCHANGED <<_recording_active, _btn_trigger_fired, qt_pc, qt_call>>

\* add_sample(video_time_ms, mapped_positions) is called: "if not
\* self.is_recording: return", else the loop over active_axes begins
AddSampleBegins ==
    /\ qt_pc = "idle"
    /\ Called("add_sample")
    /\ \E t \in SessTimes, m \in RecMapped :
          IF ~is_recording
          THEN UNCHANGED <<qt_pc, qt_call>>
          ELSE /\ qt_pc' = "add_sample"
               /\ \E order \in Orderings(active_axes) :
                     qt_call' = [video_time_ms |-> t, mapped_positions |-> m,
                                 todo |-> order]
    /\ UNCHANGED <<rec_vars, undo_stack, redo_stack, _recording_active,
                   _btn_trigger_fired>>

\* add_sample's loop takes its next axis; after the last one it returns
AddSampleStep ==
    /\ qt_pc = "add_sample"
    /\ LET st == AddSampleAxis([heap |-> rec_heap, buffer |-> _buffer,
                                last |-> _last_sample_time],
                               Head(qt_call.todo), qt_call.video_time_ms,
                               qt_call.mapped_positions)
           rest == Tail(qt_call.todo)
       IN  /\ Stored(st.heap, axis_actions, st.buffer, undo_stack, redo_stack)
           /\ _last_sample_time' = st.last
           /\ IF rest = <<>>
              THEN qt_pc' = "idle" /\ qt_call' = <<>>
              ELSE qt_pc' = "add_sample" /\ qt_call' = [qt_call EXCEPT !.todo = rest]
    /\ UNCHANGED <<is_recording, active_axes, rec_calls, _recording_active,
                   _btn_trigger_fired, sess_call>>

(***************************************************************************)
(* DeadzoneFilter on its own (stabilization.py 269-296).  Values are       *)
(* mapped integers, threshold is in tenths of a mapped unit.               *)
(***************************************************************************)

\* the mapped values the model feeds the filter: 0..DeadMaxValue
DeadMaxValue == 4

\* deadzone_threshold of the presets light, medium and heavy (0.5, 1.0, 2.0)
DeadThresholds == {5, 10, 20}

DeadInit ==
    /\ dead = DeadzoneFilter_new(10)
    /\ dead_call = None
    /\ dead_out = None

\* filter(value); dead_out is the value the call before it returned
DeadFilterCall ==
    \E value \in 0..DeadMaxValue :
        LET r == DeadzoneFilter_filter(dead, value)
        IN  /\ dead' = r.self
            /\ dead_call' = Some([value |-> value, before |-> dead,
                                  after |-> r.self, ret |-> r.ret])
            /\ dead_out' = IF dead_call = None THEN None ELSE Some(dead_call[1].ret)

\* reset(): a new sequence of inputs begins
DeadResetCall ==
    /\ dead' = DeadzoneFilter_reset(dead)
    /\ dead_call' = None
    /\ dead_out' = None

\* AxisStabilizer._apply_config assigns threshold (line 488)
DeadConfigure ==
    \E threshold \in DeadThresholds :
        /\ dead' = [dead EXCEPT !.threshold = threshold]
        /\ UNCHANGED <<dead_call, dead_out>>

(***************************************************************************)
(* Tempo estimation (beat_detection.py 367-464).  A BPM is an exact        *)
(* fraction [n, d] in lowest terms, a confidence is in thousandths.  Of    *)
(* the autocorrelation of the onset envelope the model keeps what the code *)
(* reads off it: where its peak lies, whether the peaks near twice and     *)
(* half that lag are strong enough, and the ratio peak_val / autocorr[0].  *)
(***************************************************************************)

RECURSIVE Gcd(_, _)
Gcd(a, b) == IF b = 0 THEN a ELSE Gcd(b, a % b)

\* the fraction n / d (n >= 0, d > 0) in lowest terms
Ratio(n, d) == LET g == Gcd(n, d) IN [n |-> n \div g, d |-> d \div g]

\* q <= k and k <= q for a fraction q and an integer k
AtMost(q, k) == q.n <= k * q.d

AtLeast(q, k) == q.n >= k * q.d

HalfBpm(q) == Ratio(q.n, 2 * q.d)

TwiceBpm(q) == Ratio(2 * q.n, q.d)

\* -- _estimate_tempo_from_ioi ------------------------------------------

\* onsets_ms[i] - onsets_ms[i - 1] for i in 1..len-1, those with
\* 150 < ioi < 2000
RECURSIVE ValidIntervals(_)
ValidIntervals(onsets_ms) ==
    IF Len(onsets_ms) < 2 THEN <<>>
    ELSE LET ioi == onsets_ms[2] - onsets_ms[1]
         IN  (IF 150 < ioi /\ ioi < 2000 THEN <<ioi>> ELSE <<>>)
             \o ValidIntervals(Tail(onsets_ms))

\* s with x put in before the first entry greater than x
RECURSIVE InsertedAscending(_, _)
InsertedAscending(s, x) ==
    IF s = <<>> THEN <<x>>
    ELSE IF x < Head(s) THEN <<x>> \o s
         ELSE <<Head(s)>> \o InsertedAscending(Tail(s), x)

RECURSIVE Ascending(_)
Ascending(s) ==
    IF s = <<>> THEN <<>> ELSE InsertedAscending(Ascending(Tail(s)), Head(s))

\* np.median of a non-empty list of integers
Median(s) ==
    LET a == Ascending(s)
        k == Len(a)
    IN  IF k % 2 = 1 THEN Ratio(a[(k + 1) \div 2], 1)
        ELSE Ratio(a[k \div 2] + a[k \div 2 + 1], 2)

\* a bug: the loop halves down to 40 BPM and not further
RECURSIVE FoldedDownTo40(_)
FoldedDownTo40(bpm) ==
    IF ~AtMost(bpm, 40) THEN FoldedDownTo40(HalfBpm(bpm)) ELSE bpm

\* while bpm > 200 and bpm / 2 >= 40: bpm /= 2
RECURSIVE FoldedDown(_)
FoldedDown(bpm) ==
    IF ~AtMost(bpm, 200) /\ AtLeast(HalfBpm(bpm), 40)
    THEN FoldedDown(HalfBpm(bpm))
    ELSE bpm

\* while bpm < 50 and bpm * 2 <= 200: bpm *= 2
RECURSIVE FoldedUp(_)
FoldedUp(bpm) ==
    IF ~AtLeast(bpm, 50) /\ AtMost(TwiceBpm(bpm), 200)
    THEN FoldedUp(TwiceBpm(bpm))
    ELSE bpm

\* _estimate_tempo_from_ioi(onsets_ms)
_estimate_tempo_from_ioi(onsets_ms) ==
    IF Len(onsets_ms) < 4 THEN Ratio(0, 1)
    ELSE LET intervals == ValidIntervals(onsets_ms)
         IN  IF Len(intervals) < 3 THEN Ratio(0, 1)
             ELSE LET median_ioi == Median(intervals)
                  IN  IF median_ioi.n <= 0 THEN Ratio(0, 1)
                      ELSE FoldedUp(FoldedDown(
                               Ratio(60000 * median_ioi.d, median_ioi.n)))

\* -- _estimate_tempo ---------------------------------------------------

\* max(1, int(frames_per_sec * 60 / 200)) with frames_per_sec = sr / hop_size
min_lag(sr, hop_size) == Max2(1, (60 * sr) \div (200 * hop_size))

\* min(len(autocorr) - 1, int(frames_per_sec * 60 / 40)); autocorr is the
\* full correlation from index n on, n - 1 entries
max_lag(n, sr, hop_size) == Min2((n - 1) - 1, (60 * sr) \div (40 * hop_size))

\* 40 <= bpm <= 200
InBpmRange(bpm) == AtLeast(bpm, 40) /\ AtMost(bpm, 200)

\* the lags np.argmax can return for an envelope of n frames
PeakLags(n, sr, hop_size) ==
    IF n < 100 THEN {0} ELSE min_lag(sr, hop_size)..max_lag(n, sr, hop_size)

\* _estimate_tempo(onset_env, sr, hop_size) for an envelope of n frames
\* whose autocorrelation peaks at peak_idx; double_strong and half_strong
\* tell whether local_peak > peak_val * 0.8 near 2 * peak_idx and
\* local_peak > peak_val * 0.85 near peak_idx // 2; prominence is
\* peak_val / (autocorr[0] + 1e-10) in thousandths
_estimate_tempo(n, sr, hop_size, peak_idx, double_strong, half_strong, prominence) ==
    IF n < 100 \/ min_lag(sr, hop_size) >= max_lag(n, sr, hop_size)
    THEN [bpm |-> Ratio(0, 1), confidence |-> 0]
    ELSE LET bpm0 == Ratio(60 * sr, hop_size * peak_idx)
             bpm1 == IF /\ peak_idx * 2 < n - 1
                        /\ double_strong
                        /\ InBpmRange(HalfBpm(bpm0))
                     THEN HalfBpm(bpm0) ELSE bpm0
             bpm2 == IF /\ peak_idx \div 2 >= min_lag(sr, hop_size)
                        /\ half_strong
                        /\ InBpmRange(TwiceBpm(bpm1))
                     THEN TwiceBpm(bpm1) ELSE bpm1
         IN  [bpm |-> bpm2, confidence |-> Min2(1000, Max2(0, prominence))]

\* (sr, hop_size): the defaults of detect_beats, and a rate with a whole
\* number of frames per second
TempoRates == {<<22050, 512>>, <<8000, 80>>}

\* envelope lengths
TempoFrames == {99, 100, 200}

\* peak_val / (autocorr[0] + 1e-10) in thousandths; autocorr[0] is the
\* correlation at lag 1, so the ratio can pass 1
TempoProminences == {0, 400, 1000, 1300}

\* gaps between consecutive onsets, ms
IoiGaps == {100, 150, 151, 308, 400, 1999, 2000}

\* onsets given to _estimate_tempo_from_ioi: at most this many gaps
IoiMaxGaps == 5

TempoInit ==
    /\ tempo_call = None
    /\ ioi_call = None

\* a call of _estimate_tempo
EstimateTempoCall ==
    /\ tempo_call = None
    /\ \E rate \in TempoRates, n \in TempoFrames, double_strong \in BOOLEAN,
          half_strong \in BOOLEAN, prominence \in TempoProminences :
          \E peak_idx \in PeakLags(n, rate[1], rate[2]) :
             tempo_call' =
                Some([n |-> n, sr |-> rate[1], hop_size |-> rate[2],
                      peak_idx |-> peak_idx, double_strong |-> double_strong,
                      half_strong |-> half_strong,
                      ret |-> _estimate_tempo(n, rate[1], rate[2], peak_idx,
                                              double_strong, half_strong,
                                              prominence)])
    /\ UNCHANGED ioi_call

\* the onsets the gaps in gaps make, the first at 0
RECURSIVE OnsetsOf(_, _)
OnsetsOf(t, gaps) ==
    IF gaps = <<>> THEN <<t>> ELSE <<t>> \o OnsetsOf(t + Head(gaps), Tail(gaps))

\* a call of _estimate_tempo_from_ioi
EstimateTempoFromIoiCall ==
    /\ ioi_call = None
    /\ \E k \in 0..IoiMaxGaps :
          \E gaps \in [1..k -> IoiGaps] :
             LET onsets_ms == OnsetsOf(0, gaps)
             IN  ioi_call' = Some([onsets_ms |-> onsets_ms,
                                   ret |-> _estimate_tempo_from_ioi(onsets_ms)])
    /\ UNCHANGED tempo_call

(***************************************************************************)
(* detect_beats (beat_detection.py 174-304, 467-516).  The audio is kept   *)
(* as its number of samples and the frames at which _pick_peaks finds      *)
(* onsets.  In the phase search of _build_beat_grid times are whole        *)
(* numbers of 1/176400 ms, a unit that every beat interval met here is 50    *)
(* times a whole multiple of.                                              *)
(***************************************************************************)

\* the sample rate extract_audio_wav asks ffmpeg for, and hop_size
SampleRate == 22050

HopSize == 512

\* grid times per millisecond
PerMs == 8 * SampleRate

\* a whole or fractional number of ms in grid time
Units(q) == q.n * (PerMs \div q.d)

\* int(f * hop_size / sr * 1000)
OnsetMs(f) == (f * HopSize * 1000) \div SampleRate

\* -- _build_beat_grid --------------------------------------------------

\* the beat positions phase, phase + interval, .. below duration
BeatTimes(phase, interval, duration) ==
    {phase + k * interval : k \in 0..((duration - phase - 1) \div interval)}

\* the score of a candidate phase: the beat positions with an onset within
\* tolerance
Score(phase, interval, onsets, duration) ==
    Cardinality({t \in BeatTimes(phase, interval, duration) :
                    \E i \in DOMAIN onsets :
                       Abs(Units(Ratio(onsets[i], 1)) - t) <= interval \div 5})

\* the candidate phases: the first 40 onsets modulo the interval, and 50
\* evenly spaced ones
Candidates(interval, onsets) ==
    {Units(Ratio(onsets[i], 1)) % interval : i \in 1..Min2(40, Len(onsets))}
    \cup {i * (interval \div 50) : i \in 0..49}

\* the phases the search can end with: those of the best score (which of
\* them is met first depends on the iteration order of a set of floats)
BestPhases(interval, onsets, duration) ==
    LET scored == [p \in Candidates(interval, onsets) |->
                      Score(p, interval, onsets, duration)]
    IN  {p \in DOMAIN scored : \A r \in DOMAIN scored : scored[r] <= scored[p]}

\* int(t) for the beat positions, in order
RECURSIVE Generated(_, _, _)
Generated(t, interval, duration) ==
    IF t < duration THEN <<t \div PerMs>> \o Generated(t + interval, interval, duration)
    ELSE <<>>

\* a bug: the first beat is left where it is
FirstBeatKept(beats, interval) == beats

\* "if beats and beats[0] < beat_interval * 0.1: beats[0] = 0"
FirstBeatSnapped(beats, interval) ==
    IF beats # <<>> /\ beats[1] * PerMs < interval \div 10
    THEN [beats EXCEPT ![1] = 0]
    ELSE beats

\* _build_beat_grid(bpm, onsets_ms, duration_ms) when the search ends with
\* best_phase
_build_beat_grid(bpm, onsets_ms, duration_ms, best_phase) ==
    LET interval == Units(Ratio(60000 * bpm.d, bpm.n))
    IN  FirstBeatSnapped(Generated(best_phase, interval, duration_ms * PerMs),
                         interval)

\* -- detect_beats ------------------------------------------------------

\* a bug: the lower bound is 1 / 1.8
DisagreesSymmetric(bpm, ioi_bpm) ==
    LET ratio == Ratio(bpm.n * ioi_bpm.d, bpm.d * ioi_bpm.n)
    IN  5 * ratio.n > 9 * ratio.d \/ 9 * ratio.n < 5 * ratio.d

\* "ratio > 1.8 or ratio < 0.55" with ratio = bpm / ioi_bpm
Disagrees(bpm, ioi_bpm) ==
    LET ratio == Ratio(bpm.n * ioi_bpm.d, bpm.d * ioi_bpm.n)
    IN  5 * ratio.n > 9 * ratio.d \/ 20 * ratio.n < 11 * ratio.d

\* step 5b: tempo is [bpm, confidence] of _estimate_tempo, the confidence in
\* 1/10000
CrossValidated(tempo, onsets_ms) ==
    IF Len(onsets_ms) >= 4
    THEN LET ioi_bpm == _estimate_tempo_from_ioi(onsets_ms)
         IN  IF ioi_bpm.n > 0 /\ Disagrees(tempo.bpm, ioi_bpm)
             THEN [bpm |-> ioi_bpm,
                   confidence |-> Max2(1000, tempo.confidence \div 2)]
             ELSE tempo
    ELSE tempo

\* BeatData(beats, onsets, bpm=round(bpm, 1), confidence=round(confidence, 2),
\* subdivisions=4): bpm in tenths, confidence in hundredths
BeatData_detected(beats, onsets, tempo) ==
    [beats |-> beats, onsets |-> onsets,
     bpm |-> PyRound(Ratio(10 * tempo.bpm.n, tempo.bpm.d)),
     confidence |-> PyRound(Ratio(tempo.confidence, 100)),
     subdivisions |-> 4]

\* the numbers of samples of the audio: none, 1 s, 3 s
AudioLengths == {0, 22050, 66150}

\* the frames at which _pick_peaks finds onsets: at least min_distance = 4
\* apart
OnsetFrameLists ==
    {<<>>, <<10, 20>>, <<4, 8, 12, 16>>, <<8, 16, 24, 32>>,
     <<16, 32, 48, 64, 80>>, <<20, 60, 100>>}

\* what can go wrong before the audio is in memory
Failures == {"no_numpy", "no_ffmpeg", "ffmpeg_failed", "ffmpeg_timeout",
             "wav_unreadable"}

\* what subprocess.run raises in extract_audio_wav
ExtractRaises ==
    [ffmpeg_failed |-> "CalledProcessError", ffmpeg_timeout |-> "TimeoutExpired"]

\* a bug: a timeout of ffmpeg is not handled
ExtractHandledButTimeout == {"CalledProcessError", "FileNotFoundError"}

\* the except clause of extract_audio_wav
ExtractHandled == {"CalledProcessError", "TimeoutExpired", "FileNotFoundError"}

\* the failure leaves detect_beats as an exception: _find_ffmpeg and
\* _load_wav handle theirs, extract_audio_wav those of its except clause
Raises(failure) ==
    /\ failure \in DOMAIN ExtractRaises
    /\ ExtractRaises[failure] \notin ExtractHandled

\* the values given to progress_callback, in tenths
Progress(upto) == SubSeq(<<0, 2, 3, 5, 7, 8, 10>>, 1, upto)

BeatInit == beat_call = None

\* detect_beats(video_path, progress_callback) on a machine or file that
\* makes it fail
DetectBeatsFails ==
    /\ beat_call = None
    /\ \E failure \in Failures :
          beat_call' =
             Some([failure |-> Some(failure), raised |-> Raises(failure),
                   ret |-> None,
                   progress |-> CASE failure = "no_numpy" -> Progress(0)
                                  [] failure = "wav_unreadable" -> Progress(2)
                                  [] OTHER -> Progress(1)])

\* detect_beats(video_path, progress_callback) with the audio in memory
DetectBeats ==
    /\ beat_call = None
    /\ \E samples \in AudioLengths, frames \in OnsetFrameLists,
          double_strong \in BOOLEAN, half_strong \in BOOLEAN,
          prominence \in {400, 1300} :
          LET n == samples \div HopSize + 1
              duration_ms == (samples * 1000) \div SampleRate
              onsets_ms == [i \in DOMAIN frames |-> OnsetMs(frames[i])]
          IN  /\ \A i \in DOMAIN frames : frames[i] < n - 1
              /\ \E peak_idx \in PeakLags(n, SampleRate, HopSize) :
                    LET est == _estimate_tempo(n, SampleRate, HopSize, peak_idx,
                                               double_strong, half_strong,
                                               prominence)
                        tempo == CrossValidated(
                                     [bpm |-> est.bpm,
                                      confidence |-> 10 * est.confidence],
                                     onsets_ms)
                        call == [failure |-> None, raised |-> FALSE,
                                 samples |-> samples, onsets_ms |-> onsets_ms,
                                 estimated |-> est, tempo |-> tempo,
                                 progress |-> Progress(7)]
                    IN  IF tempo.bpm.n > 0 /\ onsets_ms # <<>>
                        THEN \E best_phase \in
                                   BestPhases(Units(Ratio(60000 * tempo.bpm.d,
                                                          tempo.bpm.n)),
                                              onsets_ms, duration_ms * PerMs) :
                                beat_call' =
                                   Some([call EXCEPT !.progress = Progress(7)]
                                        @@ [best_phase |-> Some(best_phase),
                                            ret |-> Some(BeatData_detected(
                                               _build_beat_grid(tempo.bpm, onsets_ms,
                                                                duration_ms, best_phase),
                                               onsets_ms, tempo))])
                        ELSE beat_call' =
                                Some(call
                                     @@ [best_phase |-> None,
                                         ret |-> Some(BeatData_detected(
                                                    onsets_ms, onsets_ms, tempo))])

(***************************************************************************)
(* The runs of detect_beats (beat_detection.py 223-311) and of track_roi   *)
(* (vision_tracking.py 140-273), step by step, with the values they give   *)
(* to progress_callback.  The two analyses run independently of each       *)
(* other.  A value is a fraction in lowest terms.                          *)
(***************************************************************************)

\* the frames _extract_frames_raw delivers: at most this many
TrackMaxFrames == 21

\* progress_callback(value) of a run that reported progress so far
Reported(progress, value) == Append(progress, value)

\* the outcome of a run
NoResult == "None"

ProgInit ==
    /\ det_pc = "idle"
    /\ det_progress = <<>>
    /\ det_ret = None
    /\ trk_pc = "idle"
    /\ trk_progress = <<>>
    /\ trk_ret = None
    /\ trk_i = 0
    /\ n_frames = 0

\* detect_beats: "if not HAS_NUMPY: return None", then progress 0.0
DetectBegins ==
    /\ det_pc = "idle"
    /\ \E HAS_NUMPY \in BOOLEAN :
          IF HAS_NUMPY
          THEN /\ det_pc' = "begun"
               /\ det_progress' = Reported(det_progress, Ratio(0, 10))
               /\ UNCHANGED det_ret
          ELSE /\ det_pc' = "returned"
               /\ det_ret' = Some(NoResult)
               /\ UNCHANGED det_progress
    /\ UNCHANGED <<trk_pc, trk_progress, trk_ret, trk_i, n_frames>>

\* step 1: extract_audio_wav gives a path or None; then progress 0.2
DetectExtracts ==
    /\ det_pc = "begun"
    /\ \E wav_path \in {None, Some("wav")} :
          IF wav_path = None
          THEN /\ det_pc' = "returned"
               /\ det_ret' = Some(NoResult)
               /\ UNCHANGED det_progress
          ELSE /\ det_pc' = "extracted"
               /\ det_progress' = Reported(det_progress, Ratio(2, 10))
               /\ UNCHANGED det_ret
    /\ UNCHANGED <<trk_pc, trk_progress, trk_ret, trk_i, n_frames>>

\* step 2: _load_wav gives the samples or (None, 0); then progress 0.3
DetectLoads ==
    /\ det_pc = "extracted"
    /\ \E samples \in {None, Some("samples")} :
          IF samples = None
          THEN /\ det_pc' = "returned"
               /\ det_ret' = Some(NoResult)
               /\ UNCHANGED det_progress
          ELSE /\ det_pc' = "loaded"
               /\ det_progress' = Reported(det_progress, Ratio(3, 10))
               /\ UNCHANGED det_ret
    /\ UNCHANGED <<trk_pc, trk_progress, trk_ret, trk_i, n_frames>>

\* steps 3 to 5b: the onset envelope, then progress 0.5; the peaks, then
\* 0.7; the tempo, then 0.8
DetectAnalyses ==
    /\ \/ det_pc = "loaded" /\ det_pc' = "envelope"
          /\ det_progress' = Reported(det_progress, Ratio(5, 10))
       \/ det_pc = "envelope" /\ det_pc' = "peaks"
          /\ det_progress' = Reported(det_progress, Ratio(7, 10))
       \/ det_pc = "peaks" /\ det_pc' = "tempo"
          /\ det_progress' = Reported(det_progress, Ratio(8, 10))
    /\ UNCHANGED <<det_ret, trk_pc, trk_progress, trk_ret, trk_i, n_frames>>

\* step 6: the beats, then progress 1.0 and the BeatData
DetectReturns ==
    /\ det_pc = "tempo"
    /\ det_pc' = "returned"
    /\ det_progress' = Reported(det_progress, Ratio(10, 10))
    /\ det_ret' = Some("BeatData")
    /\ UNCHANGED <<trk_pc, trk_progress, trk_ret, trk_i, n_frames>>

\* track_roi: "if not HAS_NUMPY: return None", then progress 0.0
TrackBegins ==
    /\ trk_pc = "idle"
    /\ \E HAS_NUMPY \in BOOLEAN :
          IF HAS_NUMPY
          THEN /\ trk_pc' = "begun"
               /\ trk_progress' = Reported(trk_progress, Ratio(0, 10))
               /\ UNCHANGED trk_ret
          ELSE /\ trk_pc' = "returned"
               /\ trk_ret' = Some(NoResult)
               /\ UNCHANGED trk_progress
    /\ UNCHANGED <<det_pc, det_progress, det_ret, trk_i, n_frames>>

\* _extract_frames_raw gives n frames, or None with 0 frames; then
\* progress 0.1
TrackExtracts ==
    /\ trk_pc = "begun"
    /\ \E n \in 0..TrackMaxFrames :
          IF n = 0
          THEN /\ trk_pc' = "returned"
               /\ trk_ret' = Some(NoResult)
               /\ UNCHANGED <<trk_progress, n_frames>>
          ELSE /\ trk_pc' = "frames"
               /\ n_frames' = n
               /\ trk_progress' = Reported(trk_progress, Ratio(1, 10))
               /\ UNCHANGED trk_ret
    /\ UNCHANGED <<det_pc, det_progress, det_ret, trk_i>>

\* a bug: the frames are given the whole of the range
FrameProgressWhole(i, n) == Ratio(n + 10 * i, 10 * n)

\* 0.1 + 0.9 * i / n_frames
FrameProgress(i, n) == Ratio(n + 9 * i, 10 * n)

\* one pass of "for i in range(n_frames)": frame i is matched, and every
\* tenth frame reports progress
TrackFrame ==
    /\ trk_pc = "frames"
    /\ trk_i < n_frames
    /\ trk_progress' = IF trk_i % 10 = 0
                       THEN Reported(trk_progress, FrameProgress(trk_i, n_frames))
                       ELSE trk_progress
    /\ trk_i' = trk_i + 1
    /\ UNCHANGED <<det_pc, det_progress, det_ret, trk_pc, trk_ret, n_frames>>

\* after the loop: progress 1.0 and the TrackingResult
TrackReturns ==
    /\ trk_pc = "frames"
    /\ trk_i = n_frames
    /\ trk_pc' = "returned"
    /\ trk_progress' = Reported(trk_progress, Ratio(10, 10))
    /\ trk_ret' = Some("TrackingResult")
    /\ UNCHANGED <<det_pc, det_progress, det_ret, trk_i, n_frames>>

(***************************************************************************)
(* recenter (vr_controller.py 623-640), on the calibration of one axis.    *)
(* The windows the model assigns have an even width in thousandths, so     *)
(* half_range is a whole number of thousandths.                            *)
(***************************************************************************)

\* "for axis_name, current_raw in raw.items()", for one axis:
\* half_range = (max_val - min_val) / 2.0, and the window is moved only if
\* half_range > 0
AxisRecentered(self, current_raw) ==
    LET half_range == (self.max_val - self.min_val) \div 2
    IN  IF half_range > 0
        THEN [self EXCEPT !.min_val = current_raw - half_range,
                          !.max_val = current_raw + half_range]
        ELSE self

\* the readings of the axis at which recenter() is called (-0.1, 0.0, 0.275)
RecenterReadings == {-100, 0, 275}

RecenterInit == recenter_call = None

\* recenter() with the axis reading current_raw in get_current_state()
recenter ==
    \E current_raw \in RecenterReadings :
        /\ cal' = AxisRecentered(cal, current_raw)
        /\ cal_calls' = <<>>
        /\ recenter_call' = Some([current_raw |-> current_raw, before |-> cal,
                                  after |-> cal'])

(***************************************************************************)
(* Smoothing from the window (main_window.py 1384-1392) on an imported     *)
(* script.                                                                 *)
(***************************************************************************)

\* undo entries pushed by smoothing
SmoothMaxPushes == 1

\* values of smooth_spin
SmoothWindows == {3, 4, 5}

SmoothInit == smooth_call = None

\* MainWindow._smooth_selection with the active axis "stroke": the record
\* keeps the axis before and after the call and the undo entries pushed
SmoothSelection ==
    /\ rec_calls.pushes < SmoothMaxPushes
    /\ \E window \in SmoothWindows, sel \in SnapSelections :
          /\ IF sel[1] >= 0
             THEN Recorder_apply_smoothing("stroke", window, Some(sel[1]), Some(sel[2]))
             ELSE Recorder_apply_smoothing("stroke", window, None, None)
          /\ smooth_call' =
                Some([window |-> window, selection |-> sel,
                      before |-> Values(rec_heap, axis_actions["stroke"]),
                      after |-> Values(rec_heap', axis_actions'["stroke"]),
                      pushed |-> Len(undo_stack') - Len(undo_stack)])

(***************************************************************************)
(* OneEuroFilter on its own (stabilization.py 38-103).  Values are in      *)
(* tenths of a raw unit, times in whole seconds; a caller may give any     *)
(* time, also one that is not later than the one before.                   *)
(***************************************************************************)

\* filter is called at most EuroMaxCalls times between two resets
EuroMaxCalls == 3

\* the times given to filter: 0..EuroMaxT
EuroMaxT == 2

\* the values given to filter, in tenths
EuroRaws == {0, 4, 60}

\* one_euro_min_cutoff and one_euro_beta of the presets light, medium, heavy
EuroParameters == {<<25, 10>>, <<15, 7>>, <<8, 4>>}

EuroInit ==
    /\ euro = OneEuroFilter_new(10, 7, 10)
    /\ euro_calls = 0
    /\ euro_call = None

\* filter(x, t)
EuroFilterCall ==
    /\ euro_calls < EuroMaxCalls
    /\ \E x \in EuroRaws, t \in 0..EuroMaxT :
          LET r == OneEuroFilter_filter(euro, x, t)
          IN  /\ euro' = r.self
              /\ euro_calls' = euro_calls + 1
              /\ euro_call' = Some([x |-> x, t |-> t, before |-> euro,
                                    ret |-> r.ret])

\* reset()
EuroResetCall ==
    /\ euro' = OneEuroFilter_reset(euro)
    /\ euro_calls' = 0
    /\ euro_call' = None

\* AxisStabilizer._apply_config assigns min_cutoff and beta (lines 484-485)
EuroConfigure ==
    \E p \in EuroParameters :
        /\ euro' = [euro EXCEPT !.min_cutoff = p[1], !.beta = p[2]]
        /\ UNCHANGED <<euro_calls, euro_call>>

(***************************************************************************)
(* stop_recording's commit onto a project that holds actions already       *)
(* (recorder.py 106-141, funscript_io.py 89-105): a funscript is imported  *)
(* into the axis stroke, then recordings are made.                         *)
(***************************************************************************)

\* recordings started in one behaviour
CommitMaxRecordings == 1

\* the files imported before the recordings: timestamps ascending
CommitFiles == {<<>>, <<50, 110, 1005>>}

CommitInit == commit_call = None

\* MainWindow._import_funscript, before the first recording
CommitImport ==
    /\ rec_calls.starts = 0
    /\ ~is_recording
    /\ axis_actions["stroke"] = <<>>
    /\ \E f \in CommitFiles : import_funscript(FileActions(f), "stroke")
    /\ commit_call' = None

CommitStart ==
    /\ rec_calls.starts < CommitMaxRecordings
    /\ \E t \in RecTimes : Recorder_start_recording(t)
    /\ commit_call' = None

CommitSample ==
    /\ is_recording
    /\ \E t \in RecTimes, m \in RecMapped : Recorder_add_sample(t, m)
    /\ commit_call' = None

CommitAxes ==
    /\ ~is_recording
    /\ rec_calls.starts < CommitMaxRecordings
    /\ \E active \in SUBSET RecAxes : SetActiveAxes(active)
    /\ commit_call' = None

\* stop_recording(); commit_call is what it found: the buffer, the axes and
\* the undo stack, by value
CommitStop ==
    /\ is_recording
    /\ Recorder_stop_recording
    /\ commit_call' =
          Some([buffer |-> [i \in DOMAIN _buffer |->
                               [axis_name |-> _buffer[i].axis_name,
                                actions |-> Values(rec_heap, _buffer[i].actions)]],
                axes |-> [a \in RecAxes |-> Values(rec_heap, axis_actions[a])],
                undo |-> Len(undo_stack)])

(***************************************************************************)
(* The undoable operations with Recorder.undo and Recorder.redo            *)
(* (recorder.py 106-141, 185-231, 292-327, main_window.py 1504-1575), and  *)
(* beside each entry of the undo and redo stacks what the axes held before *)
(* and after the operation that pushed it.                                 *)
(***************************************************************************)

\* the files imported before the first operation: timestamps ascending
HistFiles == {<<>>, <<100, 125, 140>>}

\* video times and mapped positions of the samples
HistTimes == {100, 120}

HistMapped == {[y |-> 30, z |-> 70]}

\* the actions of every axis, by value
HistAxes == [a \in RecAxes |-> Values(rec_heap, axis_actions[a])]

HistInit ==
    /\ hist_undo = <<>>
    /\ hist_redo = <<>>
    /\ hist_call = None

\* an operation of this type has run: one note per entry it pushed
HistPushed(type) ==
    LET k == rec_calls'.pushes - rec_calls.pushes
        note == [before |-> HistAxes, after |-> HistAxes']
    IN  /\ hist_undo' = hist_undo \o [i \in 1..k |-> note]
        /\ hist_redo' = IF k > 0 THEN <<>> ELSE hist_redo
        /\ hist_call' = IF k > 0
                        THEN Some([op |-> "push", type |-> type, axis |-> "",
                                   before |-> note.before, after |-> note.after,
                                   left |-> k])
                        ELSE None

\* MainWindow._import_funscript, before the first operation
HistImport ==
    /\ rec_calls.starts = 0
    /\ rec_calls.pushes = 0
    /\ axis_actions["stroke"] = <<>>
    /\ \E f \in HistFiles : import_funscript(FileActions(f), "stroke")
    /\ UNCHANGED <<hist_undo, hist_redo, hist_call>>

HistStart ==
    /\ ~is_recording
    /\ rec_calls.starts < RecMaxRecordings
    /\ \E t \in HistTimes : Recorder_start_recording(t)
    /\ UNCHANGED <<hist_undo, hist_redo>>
    /\ hist_call' = None

HistSample ==
    /\ is_recording
    /\ \E t \in HistTimes, m \in HistMapped : Recorder_add_sample(t, m)
    /\ UNCHANGED <<hist_undo, hist_redo>>
    /\ hist_call' = None

HistAxesChanged ==
    /\ ~is_recording
    /\ rec_calls.starts < RecMaxRecordings
    /\ \E active \in SUBSET RecAxes : SetActiveAxes(active)
    /\ UNCHANGED <<hist_undo, hist_redo>>
    /\ hist_call' = None

HistStop ==
    /\ is_recording
    /\ rec_calls.pushes + Len(_buffer) <= RecMaxPushes
    /\ Recorder_stop_recording
    /\ HistPushed("record")

HistClearRange ==
    /\ ClearRange
    /\ HistPushed("clear")

HistSmoothing ==
    /\ ApplySmoothing
    /\ HistPushed("smooth")

HistBeatSnap ==
    /\ BeatSnap
    /\ HistPushed("beat_snap")

\* Recorder.undo() with an entry to undo; left counts the undos still due
\* when this one follows the operation that pushed the entry or an undo of
\* that operation's other entries, and is -1 otherwise
HistUndo ==
    /\ undo_stack # <<>>
    /\ Undo
    /\ hist_undo' = Front(hist_undo)
    /\ hist_redo' = Append(hist_redo, Last(hist_undo))
    /\ hist_call' =
          LET follows == /\ hist_call # None
                         /\ hist_call[1].op \in {"push", "undo"}
                         /\ hist_call[1].left > 0
          IN  Some([op |-> "undo", type |-> Top(undo_stack).type,
                    axis |-> Top(undo_stack).segment.axis_name,
                    before |-> IF follows THEN hist_call[1].before
                               ELSE Last(hist_undo).before,
                    after |-> Last(hist_undo).after,
                    left |-> IF follows THEN hist_call[1].left - 1 ELSE -1])

\* Recorder.redo() with an entry to redo; left is 0 when this redo follows
\* the undo of the same entry at once, and -1 otherwise
HistRedo ==
    /\ redo_stack # <<>>
    /\ Redo
    /\ hist_redo' = Front(hist_redo)
    /\ hist_undo' = Append(hist_undo, Last(hist_redo))
    /\ hist_call' =
          Some([op |-> "redo", type |-> Top(redo_stack).type,
                axis |-> Top(redo_stack).segment.axis_name,
                before |-> Last(hist_redo).before,
                after |-> Last(hist_redo).after,
                left |-> IF hist_call # None /\ hist_call[1].op = "undo"
                         THEN 0 ELSE -1])

(***************************************************************************)
(* The recording buffer under add_sample (recorder.py 99-104, 143-179):    *)
(* video times that lie closer than min_interval_ms, that repeat and that  *)
(* jump back, mapped positions out of range, axes switched on and off      *)
(* while the recording runs.                                               *)
(***************************************************************************)

\* recordings started in one behaviour
BufMaxRecordings == 1

\* the video times of the calls, in any order: 11 is min_interval_ms
\* after 0, 21 one millisecond too early after 11
BufTimes == {0, 5, 11, 21, 22}

\* ControllerState.mapped, by controller axis; 120 and -5 are out of range
BufMapped == {[y |-> 30], [y |-> 120, z |-> -5]}

BufInit == buf_call = None

BufStart ==
    /\ rec_calls.starts < BufMaxRecordings
    /\ \E t \in BufTimes : Recorder_start_recording(t)
    /\ buf_call' = None

\* add_sample(video_time_ms, mapped_positions) during a recording; buf_call
\* is what it was called with and the buffer it found, by value
BufSample ==
    /\ is_recording
    /\ \E t \in BufTimes, m \in BufMapped :
          /\ Recorder_add_sample(t, m)
          /\ buf_call' =
                Some([video_time_ms |-> t, mapped_positions |-> m,
                      active_axes |-> active_axes,
                      buffer |-> [i \in DOMAIN _buffer |->
                                     [axis_name |-> _buffer[i].axis_name,
                                      actions |-> Values(rec_heap,
                                                         _buffer[i].actions)]]])

BufCancel ==
    /\ is_recording
    /\ Recorder_cancel_recording
    /\ buf_call' = None

\* MainWindow._on_multi_axis_changed, also while a recording runs
BufAxesChanged ==
    /\ \E active \in SUBSET RecAxes : SetActiveAxes(active)
    /\ buf_call' = None

(***************************************************************************)
(* The axis locks of VRControllerInput (vr_controller.py 445-467,          *)
(* 689-717) over the StabilizationManager's stabilizers (stabilization.py  *)
(* 591-611), for the axes y and z.  Raw values are in tenths, the clock    *)
(* counts the polls.                                                       *)
(***************************************************************************)

\* poll_once runs at most LockMaxT times
LockMaxT == 2

LockAxes == {"y", "z"}

\* the raw values of a tracked pose, in tenths
LockRaws == {0, 60}

\* the methods of StabilizationManager (stabilization.py 563-611)
StabilizationManager_methods ==
    {"preset_name", "set_preset", "set_axis_config", "process", "post_map",
     "reset_all", "reset_axis"}

\* self._stabilization.<name>(axis_name) for the methods that reset: what is
\* raised, and the stabilizers afterwards
StabilizationManager_call(name, stabs, axis_name) ==
    IF name \notin StabilizationManager_methods
    THEN [raised |-> "AttributeError", stabs |-> stabs]
    ELSE IF name = "reset_axis"
    THEN [raised |-> "",
          stabs |-> [a \in DOMAIN stabs |->
                        IF a = axis_name THEN AxisStabilizer_reset(stabs[a])
                        ELSE stabs[a]]]
    ELSE IF name = "reset_all"
    THEN [raised |-> "",
          stabs |-> [a \in DOMAIN stabs |-> AxisStabilizer_reset(stabs[a])]]
    ELSE [raised |-> "", stabs |-> stabs]

\* VRControllerInput.__init__: no axis locked, the stabilizers of the preset
\* medium, a ControllerState of zeros
LockInit ==
    /\ lock_ctl = [_axis_locks |-> [a \in LockAxes |-> FALSE],
                   _axis_lock_values |-> [a \in LockAxes |-> 0],
                   state |-> [a \in LockAxes |-> 0]]
    /\ lock_stabs = [a \in LockAxes |->
                        AxisStabilizer_new(PipeHeap, a, <<"preset", "medium">>).self]
    /\ lock_t = 0
    /\ lock_call = None

\* poll_once, steps 2 to 5: every axis goes through its stabilizer, a locked
\* axis is then held at its lock value, and the value mapped with the
\* default calibration goes through the stabilizer's post-map filters
LockPoll ==
    /\ lock_t < LockMaxT
    /\ \E raw \in [LockAxes -> LockRaws] :
          LET r == [a \in LockAxes |->
                       AxisStabilizer_process(lock_stabs[a], PipeHeap, raw[a],
                                              lock_t + 1)]
              held == [a \in LockAxes |->
                          IF lock_ctl._axis_locks[a]
                          THEN lock_ctl._axis_lock_values[a]
                          ELSE r[a].ret]
              mapped == [a \in LockAxes |->
                            AxisCalibration_map_value(AxisCalibration_new,
                                                      100 * held[a])]
          IN  /\ lock_stabs' =
                    [a \in LockAxes |->
                        AxisStabilizer_post_map(r[a].self, PipeHeap, mapped[a]).self]
              /\ lock_ctl' = [lock_ctl EXCEPT !.state = held]
    /\ lock_t' = lock_t + 1
    /\ lock_call' = None

\* lock_axis(axis): the controller afterwards
LockedAxis(ctl, axis) ==
    IF axis \notin DOMAIN ctl._axis_locks THEN ctl
    ELSE [ctl EXCEPT !._axis_lock_values[axis] = ctl.state[axis],
                     !._axis_locks[axis] = TRUE]

\* unlock_axis(axis): what is raised, the controller and the stabilizers
\* afterwards
UnlockedAxis(ctl, stabs, axis) ==
    IF axis \notin DOMAIN ctl._axis_locks
    THEN [raised |-> "", ctl |-> ctl, stabs |-> stabs]
    ELSE LET r == StabilizationManager_call("reset", stabs, axis)
         IN  [raised |-> r.raised,
              ctl |-> [ctl EXCEPT !._axis_locks[axis] = FALSE],
              stabs |-> r.stabs]

\* what a call found and did; ret is <<>> when the call raised
LockCalled(op, axis, raised, ret) ==
    Some([op |-> op, axis |-> axis, raised |-> raised, ret |-> ret,
          ctl |-> lock_ctl, stabs |-> lock_stabs])

\* lock_axis(axis)
lock_axis ==
    \E axis \in LockAxes \cup {"unknown"} :
        /\ lock_ctl' = LockedAxis(lock_ctl, axis)
        /\ lock_call' = LockCalled("lock_axis", axis, "", None)
        /\ UNCHANGED <<lock_stabs, lock_t>>

\* unlock_axis(axis)
unlock_axis ==
    \E axis \in LockAxes \cup {"unknown"} :
        LET r == UnlockedAxis(lock_ctl, lock_stabs, axis)
        IN  /\ lock_ctl' = r.ctl
            /\ lock_stabs' = r.stabs
            /\ lock_call' = LockCalled("unlock_axis", axis, r.raised, None)
            /\ UNCHANGED lock_t

\* toggle_axis_lock(axis)
toggle_axis_lock ==
    \E axis \in LockAxes :
        IF lock_ctl._axis_locks[axis]
        THEN LET r == UnlockedAxis(lock_ctl, lock_stabs, axis)
             IN  /\ lock_ctl' = r.ctl
                 /\ lock_stabs' = r.stabs
                 /\ lock_call' = LockCalled("toggle_axis_lock", axis, r.raised,
                                            IF r.raised = "" THEN Some(FALSE)
                                            ELSE None)
                 /\ UNCHANGED lock_t
        ELSE /\ lock_ctl' = LockedAxis(lock_ctl, axis)
             /\ lock_call' = LockCalled("toggle_axis_lock", axis, "", Some(TRUE))
             /\ UNCHANGED <<lock_stabs, lock_t>>

(***************************************************************************)
(* One axis's calibration between the interactive thread, which writes     *)
(* min_val and then max_val (vr_controller.py 612-616, 623-640, 657-666),  *)
(* and the polling thread, whose map_value reads max_val and min_val       *)
(* (vr_controller.py 459-462, 159-163).  Neither side takes a lock, so the *)
(* threads interleave between any two attribute accesses.  Values are in   *)
(* thousandths of a raw unit.                                              *)
(***************************************************************************)

\* calibration updates in one behaviour
RaceMaxUpdates == 2

\* the (min_val, max_val) pairs given to calibrate_axis
RaceWindows == {<<2000, 3000>>, <<-500, 500>>}

\* the current raw readings recenter finds
RaceReadings == {0, 2500}

\* the (min, max) pairs auto-calibration collected
RaceCollected == {<<1000, 3000>>}

RaceInit ==
    /\ race_cal = AxisCalibration_new
    /\ race_ui = [pc |-> "idle"]
    /\ race_poll = [pc |-> "idle"]
    /\ race_written = {<<AxisCalibration_new.min_val, AxisCalibration_new.max_val>>}
    /\ race_read = None

\* an update begins: min_val is written, max_val is still to be written
WritesMin(min_val, max_val) ==
    /\ race_ui.pc = "idle"
    /\ Cardinality(race_written) <= RaceMaxUpdates
    /\ race_cal' = [race_cal EXCEPT !.min_val = min_val]
    /\ race_ui' = [pc |-> "max_val", min_val |-> min_val, max_val |-> max_val]
    /\ UNCHANGED <<race_poll, race_written, race_read>>

\* calibrate_axis, line 615
CalibrateAxisWritesMin ==
    \E w \in RaceWindows : WritesMin(w[1], w[2])

\* recenter, lines 637-639
RecenterWritesMin ==
    \E current_raw \in RaceReadings :
        LET half_range == (race_cal.max_val - race_cal.min_val) \div 2
        IN  /\ half_range > 0
            /\ WritesMin(current_raw - half_range, current_raw + half_range)

\* auto_calibrate_finish, lines 663-665
AutoCalibrateWritesMin ==
    \E data \in RaceCollected :
        LET margin == (data[2] - data[1]) \div 20
        IN  /\ data[1] < data[2]
            /\ WritesMin(data[1] - margin, data[2] + margin)

\* lines 616, 640, 666: max_val is written, the update is whole
UpdateWritesMax ==
    /\ race_ui.pc = "max_val"
    /\ race_cal' = [race_cal EXCEPT !.max_val = race_ui.max_val]
    /\ race_written' = race_written \cup {<<race_ui.min_val, race_ui.max_val>>}
    /\ race_ui' = [pc |-> "idle"]
    /\ UNCHANGED <<race_poll, race_read>>

\* map_value, line 161: self.max_val is read
MapValueReadsMax ==
    /\ race_poll.pc = "idle"
    /\ race_poll' = [pc |-> "min_val", max_val |-> race_cal.max_val]
    /\ race_read' = None
    /\ UNCHANGED <<race_cal, race_ui, race_written>>

\* map_value, line 161: self.min_val is read and range_val is computed
MapValueReadsMin ==
    /\ race_poll.pc = "min_val"
    /\ race_read' = Some([min_val |-> race_cal.min_val,
                          max_val |-> race_poll.max_val,
                          range_val |-> race_poll.max_val - race_cal.min_val])
    /\ race_poll' = [pc |-> "idle"]
    /\ UNCHANGED <<race_cal, race_ui, race_written>>

(***************************************************************************)
(* The temporary WAV file of detect_beats (beat_detection.py 174-200,      *)
(* 219-311), step by step.  A file is named by the number of the run that  *)
(* made it.                                                                *)
(***************************************************************************)

\* detect_beats runs at most TmpMaxRuns times
TmpMaxRuns == 3

\* how subprocess.run ends in extract_audio_wav
FfmpegOutcomes == {"ok", "CalledProcessError", "TimeoutExpired", "FileNotFoundError"}

TmpInit ==
    /\ tmp_pc = "idle"
    /\ tmp_run = 0
    /\ tmp_files = {}
    /\ tmp_made = {}
    /\ tmp_ret = None

\* detect_beats is called: "if not HAS_NUMPY: return None"
TmpBegins ==
    /\ tmp_pc = "idle"
    /\ tmp_run < TmpMaxRuns
    /\ tmp_run' = tmp_run + 1
    /\ tmp_made' = {}
    /\ \E HAS_NUMPY \in BOOLEAN :
          IF HAS_NUMPY
          THEN tmp_pc' = "begun" /\ tmp_ret' = None
          ELSE tmp_pc' = "returned" /\ tmp_ret' = Some(NoResult)
    /\ UNCHANGED tmp_files

\* extract_audio_wav, lines 180-181: "if not _check_ffmpeg(): return None"
TmpChecksFfmpeg ==
    /\ tmp_pc = "begun"
    /\ \E found \in BOOLEAN :
          IF found
          THEN tmp_pc' = "mkstemp" /\ UNCHANGED tmp_ret
          ELSE tmp_pc' = "returned" /\ tmp_ret' = Some(NoResult)
    /\ UNCHANGED <<tmp_run, tmp_files, tmp_made>>

\* extract_audio_wav, lines 185-187: tempfile.mkstemp(suffix=".wav")
TmpMakesFile ==
    /\ tmp_pc = "mkstemp"
    /\ tmp_files' = tmp_files \cup {tmp_run}
    /\ tmp_made' = tmp_made \cup {tmp_run}
    /\ tmp_pc' = "ffmpeg"
    /\ UNCHANGED <<tmp_run, tmp_ret>>

\* what extract_audio_wav does with the file when subprocess.run raises one
\* of the exceptions it handles: it returns None (line 200)
AfterFailedExtraction(files, path) == files

\* extract_audio_wav, lines 189-200, and detect_beats, lines 238-240:
\* subprocess.run ends; after a handled exception extract_audio_wav returns
\* None and so does detect_beats
TmpRunsFfmpeg ==
    /\ tmp_pc = "ffmpeg"
    /\ \E outcome \in FfmpegOutcomes :
          IF outcome = "ok"
          THEN /\ tmp_pc' = "extracted"
               /\ UNCHANGED <<tmp_files, tmp_ret>>
          ELSE /\ tmp_pc' = "returned"
               /\ tmp_files' = AfterFailedExtraction(tmp_files, tmp_run)
               /\ tmp_ret' = Some(NoResult)
    /\ UNCHANGED <<tmp_run, tmp_made>>

\* step 2 inside the try: _load_wav gives the samples or (None, 0)
TmpLoads ==
    /\ tmp_pc = "extracted"
    /\ \E readable \in BOOLEAN :
          IF readable
          THEN tmp_pc' = "loaded" /\ UNCHANGED tmp_ret
          ELSE tmp_pc' = "finally" /\ tmp_ret' = Some(NoResult)
    /\ UNCHANGED <<tmp_run, tmp_files, tmp_made>>

\* steps 3 to 6 inside the try: a BeatData, or an exception on its way out
TmpAnalyses ==
    /\ tmp_pc = "loaded"
    /\ \E outcome \in {"BeatData", "exception"} :
          /\ tmp_pc' = "finally"
          /\ tmp_ret' = Some(outcome)
    /\ UNCHANGED <<tmp_run, tmp_files, tmp_made>>

\* the finally clause, lines 306-310: os.unlink(wav_path)
Unlinked(files, path) == files \ {path}

TmpFinally ==
    /\ tmp_pc = "finally"
    /\ tmp_files' = Unlinked(tmp_files, tmp_run)
    /\ tmp_pc' = "returned"
    /\ UNCHANGED <<tmp_run, tmp_made, tmp_ret>>

\* the caller has the result
TmpReturned ==
    /\ tmp_pc = "returned"
    /\ tmp_pc' = "idle"
    /\ UNCHANGED <<tmp_run, tmp_files, tmp_made, tmp_ret>>

(***************************************************************************)
(* Specifications: one per component; the other components stay as built.  *)
(***************************************************************************)

Init ==
    /\ UndoManager_init
    /\ SlewInit
    /\ HystInit
    /\ SpikeInit
    /\ StabInit
    /\ CalInit
    /\ RdpInit
    /\ RecInit
    /\ PipeInit
    /\ SnapInit
    /\ GridInit
    /\ PollInit
    /\ SessInit
    /\ DeadInit
    /\ TempoInit
    /\ BeatInit
    /\ ProgInit
    /\ RecenterInit
    /\ SmoothInit
    /\ EuroInit
    /\ CommitInit
    /\ HistInit
    /\ BufInit
    /\ LockInit
    /\ RaceInit
    /\ TmpInit

UndoOthers == <<slew_vars, hyst_vars, spike_vars, stab_vars, cal_vars,
               rdp_vars, rec_vars,
          pipe_vars,
          snap_vars,
          grid_vars,
          poll_vars,
          sess_vars,
          dead_vars,
          tempo_vars,
          beat_vars,
          prog_vars,
          recal_vars,
          smooth_vars,
          euro_vars,
          commit_vars,
          hist_vars,
          buf_vars,
          lock_vars,
          race_vars,
          tmp_vars>>

UndoNext ==
    \/ UndoManager_push /\ UNCHANGED UndoOthers
    \/ UndoManager_undo /\ UNCHANGED UndoOthers
    \/ UndoManager_redo /\ UNCHANGED UndoOthers
    \/ UndoManager_clear /\ UNCHANGED UndoOthers

SpecUndo == Init /\ [][UndoNext]_vars

SlewOthers == <<um_vars, hyst_vars, spike_vars, stab_vars, cal_vars,
               rdp_vars, rec_vars,
          pipe_vars,
          snap_vars,
          grid_vars,
          poll_vars,
          sess_vars,
          dead_vars,
          tempo_vars,
          beat_vars,
          prog_vars,
          recal_vars,
          smooth_vars,
          euro_vars,
          commit_vars,
          hist_vars,
          buf_vars,
          lock_vars,
          race_vars,
          tmp_vars>>

SlewNext ==
    \/ SlewFilterCall /\ UNCHANGED SlewOthers
    \/ SlewResetCall /\ UNCHANGED SlewOthers
    \/ SlewConfigure /\ UNCHANGED SlewOthers

SpecSlew == Init /\ [][SlewNext]_vars

HystOthers == <<um_vars, slew_vars, spike_vars, stab_vars, cal_vars,
               rdp_vars, rec_vars,
          pipe_vars,
          snap_vars,
          grid_vars,
          poll_vars,
          sess_vars,
          dead_vars,
          tempo_vars,
          beat_vars,
          prog_vars,
          recal_vars,
          smooth_vars,
          euro_vars,
          commit_vars,
          hist_vars,
          buf_vars,
          lock_vars,
          race_vars,
          tmp_vars>>

HystNext ==
    \/ HystFilterCall /\ UNCHANGED HystOthers
    \/ HystResetCall /\ UNCHANGED HystOthers
    \/ HystConfigure /\ UNCHANGED HystOthers

SpecHyst == Init /\ [][HystNext]_vars

SpikeOthers == <<um_vars, slew_vars, hyst_vars, stab_vars, cal_vars,
               rdp_vars, rec_vars,
          pipe_vars,
          snap_vars,
          grid_vars,
          poll_vars,
          sess_vars,
          dead_vars,
          tempo_vars,
          beat_vars,
          prog_vars,
          recal_vars,
          smooth_vars,
          euro_vars,
          commit_vars,
          hist_vars,
          buf_vars,
          lock_vars,
          race_vars,
          tmp_vars>>

SpikeNext ==
    \/ SpikeFilterCall /\ UNCHANGED SpikeOthers
    \/ SpikeResetCall /\ UNCHANGED SpikeOthers
    \/ SpikeConfigure /\ UNCHANGED SpikeOthers

SpecSpike == Init /\ [][SpikeNext]_vars

StabOthers == <<um_vars, slew_vars, hyst_vars, spike_vars, cal_vars,
               rdp_vars, rec_vars,
          pipe_vars,
          snap_vars,
          grid_vars,
          poll_vars,
          sess_vars,
          dead_vars,
          tempo_vars,
          beat_vars,
          prog_vars,
          recal_vars,
          smooth_vars,
          euro_vars,
          commit_vars,
          hist_vars,
          buf_vars,
          lock_vars,
          race_vars,
          tmp_vars>>

StabNext ==
    \/ StabilizationManager_set_preset /\ UNCHANGED StabOthers
    \/ StabilizationManager_set_axis_config /\ UNCHANGED StabOthers
    \/ StabilizationManager_reassign_config /\ UNCHANGED StabOthers

SpecStab == Init /\ [][StabNext]_vars

CalOthers == <<um_vars, slew_vars, hyst_vars, spike_vars, stab_vars,
              rdp_vars, rec_vars,
          pipe_vars,
          snap_vars,
          grid_vars,
          poll_vars,
          sess_vars,
          dead_vars,
          tempo_vars,
          beat_vars,
          prog_vars,
          recal_vars,
          smooth_vars,
          euro_vars,
          commit_vars,
          hist_vars,
          buf_vars,
          lock_vars,
          race_vars,
          tmp_vars>>

CalNext ==
    \/ calibrate_axis /\ UNCHANGED CalOthers
    \/ set_sensitivity /\ UNCHANGED CalOthers
    \/ set_inverted /\ UNCHANGED CalOthers
    \/ MapValueCall /\ UNCHANGED CalOthers

SpecCal == Init /\ [][CalNext]_vars

RdpOthers == <<um_vars, slew_vars, hyst_vars, spike_vars, stab_vars, cal_vars,
              rec_vars,
          pipe_vars,
          snap_vars,
          grid_vars,
          poll_vars,
          sess_vars,
          dead_vars,
          tempo_vars,
          beat_vars,
          prog_vars,
          recal_vars,
          smooth_vars,
          euro_vars,
          commit_vars,
          hist_vars,
          buf_vars,
          lock_vars,
          race_vars,
          tmp_vars>>

RdpNext ==
    \/ ReducePointsCall /\ UNCHANGED RdpOthers
    \/ ReduceScenarioCall /\ UNCHANGED RdpOthers

SpecRdp == Init /\ [][RdpNext]_vars

RecOthers == <<um_op, um_ret, um_pushes, um_undos, slew_vars, hyst_vars, spike_vars,
              stab_vars, cal_vars, rdp_vars,
          pipe_vars,
          snap_vars,
          grid_vars,
          poll_vars,
          sess_vars,
          dead_vars,
          tempo_vars,
          beat_vars,
          prog_vars,
          recal_vars,
          smooth_vars,
          euro_vars,
          commit_vars,
          hist_vars,
          buf_vars,
          lock_vars,
          race_vars,
          tmp_vars>>

RecNext ==
    \/ StartRecording /\ UNCHANGED RecOthers
    \/ AddSample /\ UNCHANGED RecOthers
    \/ StopRecording /\ UNCHANGED RecOthers
    \/ CancelRecording /\ UNCHANGED RecOthers
    \/ MultiAxisChanged /\ UNCHANGED RecOthers
    \/ Undo /\ UNCHANGED RecOthers
    \/ Redo /\ UNCHANGED RecOthers
    \/ ClearRange /\ UNCHANGED RecOthers
    \/ ApplySmoothing /\ UNCHANGED RecOthers
    \/ BeatSnap /\ UNCHANGED RecOthers

SpecRec == Init /\ [][RecNext]_vars

PipeOthers == <<um_vars, slew_vars, hyst_vars, spike_vars, stab_vars, cal_vars,
               rdp_vars, rec_vars,
          snap_vars,
          grid_vars,
          poll_vars,
          sess_vars,
          dead_vars,
          tempo_vars,
          beat_vars,
          prog_vars,
          recal_vars,
          smooth_vars,
          euro_vars,
          commit_vars,
          hist_vars,
          buf_vars,
          lock_vars,
          race_vars,
          tmp_vars>>

PipeNext ==
    \/ PipeProcess /\ UNCHANGED PipeOthers
    \/ PipePostMap /\ UNCHANGED PipeOthers
    \/ PipeSetConfig /\ UNCHANGED PipeOthers
    \/ PipeReset /\ UNCHANGED PipeOthers

SpecPipe == Init /\ [][PipeNext]_vars

SnapOthers == <<um_op, um_ret, um_pushes, um_undos, slew_vars, hyst_vars, spike_vars,
               stab_vars, cal_vars, rdp_vars, pipe_vars,
          grid_vars,
          poll_vars,
          sess_vars,
          dead_vars,
          tempo_vars,
          beat_vars,
          prog_vars,
          recal_vars,
          smooth_vars,
          euro_vars,
          commit_vars,
          hist_vars,
          buf_vars,
          lock_vars,
          race_vars,
          tmp_vars>>

SnapNext ==
    \/ ImportFunscript /\ UNCHANGED SnapOthers
    \/ SnapToBeats /\ UNCHANGED SnapOthers
    \/ ApplyBeatSnap /\ UNCHANGED SnapOthers
    \/ ApplyBeatSnapWithStrength /\ UNCHANGED SnapOthers

SpecSnap == Init /\ [][SnapNext]_vars

GridOthers == <<um_vars, slew_vars, hyst_vars, spike_vars, stab_vars, cal_vars,
               rdp_vars, rec_vars, pipe_vars, snap_vars,
          poll_vars,
          sess_vars,
          dead_vars,
          tempo_vars,
          beat_vars,
          prog_vars,
          recal_vars,
          smooth_vars,
          euro_vars,
          commit_vars,
          hist_vars,
          buf_vars,
          lock_vars,
          race_vars,
          tmp_vars>>

GridNext ==
    \/ BeatDataBuilt /\ UNCHANGED GridOthers
    \/ GetBeatGridCall /\ UNCHANGED GridOthers

SpecGrid == Init /\ [][GridNext]_vars

PollOthers == <<um_vars, slew_vars, hyst_vars, spike_vars, stab_vars, cal_vars,
               rdp_vars, rec_vars, pipe_vars, snap_vars, grid_vars,
          sess_vars,
          dead_vars,
          tempo_vars,
          beat_vars,
          prog_vars,
          recal_vars,
          smooth_vars,
          euro_vars,
          commit_vars,
          hist_vars,
          buf_vars,
          lock_vars,
          race_vars,
          tmp_vars>>

\* the steps of the polling thread
FiltPollThread ==
    \/ PollOnceBegins(FiltMaxSamples) /\ UNCHANGED PollOthers
    \/ PollOnceUntracked /\ UNCHANGED PollOthers
    \/ PollOnceKalman /\ UNCHANGED PollOthers
    \/ PollOncePreMap /\ UNCHANGED PollOthers
    \/ PollOncePostMap({FALSE}) /\ UNCHANGED PollOthers
    \/ PollAcquires /\ UNCHANGED PollOthers
    \/ PollStores /\ UNCHANGED PollOthers
    \/ PollAppends /\ UNCHANGED PollOthers
    \/ PollReleases /\ UNCHANGED PollOthers
    \/ PollDetectsEdge /\ UNCHANGED PollOthers
    \/ PollUpdatesPrev /\ UNCHANGED PollOthers

FiltNext ==
    \/ StartPolling /\ UNCHANGED PollOthers
    \/ FiltPollThread
    \/ ResetFiltersKalman /\ UNCHANGED PollOthers
    \/ ResetFiltersStabilization /\ UNCHANGED PollOthers
    \/ SetStabilizationPreset /\ UNCHANGED PollOthers
    \/ LockAxis /\ UNCHANGED PollOthers
    \/ UnlockAxis /\ UNCHANGED PollOthers

SpecFilt == Init /\ [][FiltNext]_vars

\* the steps of the polling thread
SlotPollThread ==
    \/ PollOnceBegins(SlotMaxSamples) /\ UNCHANGED PollOthers
    \/ PollOnceUntracked /\ UNCHANGED PollOthers
    \/ PollOnceKalman /\ UNCHANGED PollOthers
    \/ PollOncePreMap /\ UNCHANGED PollOthers
    \/ PollOncePostMap({FALSE}) /\ UNCHANGED PollOthers
    \/ PollAcquires /\ UNCHANGED PollOthers
    \/ PollStores /\ UNCHANGED PollOthers
    \/ PollAppends /\ UNCHANGED PollOthers
    \/ PollReleases /\ UNCHANGED PollOthers
    \/ PollDetectsEdge /\ UNCHANGED PollOthers
    \/ PollUpdatesPrev /\ UNCHANGED PollOthers

SlotNext ==
    \/ StartPolling /\ UNCHANGED PollOthers
    \/ SlotPollThread
    \/ GetCurrentStateAcquires /\ UNCHANGED PollOthers
    \/ GetCurrentStateReturns /\ UNCHANGED PollOthers

SpecSlot == Init /\ [][SlotNext]_vars

\* the steps of the polling thread
BtnPollThread ==
    \/ PollOnceBegins(BtnMaxSamples) /\ UNCHANGED PollOthers
    \/ PollOnceUntracked /\ UNCHANGED PollOthers
    \/ PollOnceKalman /\ UNCHANGED PollOthers
    \/ PollOncePreMap /\ UNCHANGED PollOthers
    \/ PollOncePostMap(BOOLEAN) /\ UNCHANGED PollOthers
    \/ PollAcquires /\ UNCHANGED PollOthers
    \/ PollStores /\ UNCHANGED PollOthers
    \/ PollAppends /\ UNCHANGED PollOthers
    \/ PollReleases /\ UNCHANGED PollOthers
    \/ PollDetectsEdge /\ UNCHANGED PollOthers
    \/ PollInvokesCallback /\ UNCHANGED PollOthers
    \/ PollCallbacksDone /\ UNCHANGED PollOthers
    \/ PollUpdatesPrev /\ UNCHANGED PollOthers

BtnNext ==
    \/ StartPolling /\ UNCHANGED PollOthers
    \/ BtnPollThread
    \/ OnButtonPress /\ UNCHANGED PollOthers

\* the polling thread is a running thread: it takes its next step
SpecBtn == Init /\ [][BtnNext]_vars /\ WF_vars(BtnPollThread)

SessOthers == <<um_op, um_ret, um_pushes, um_undos, slew_vars, hyst_vars, spike_vars,
               stab_vars, cal_vars, rdp_vars, pipe_vars, snap_vars, grid_vars,
               poll_vars,
          dead_vars,
          tempo_vars,
          beat_vars,
          prog_vars,
          recal_vars,
          smooth_vars,
          euro_vars,
          commit_vars,
          hist_vars,
          buf_vars,
          lock_vars,
          race_vars,
          tmp_vars>>

SessNext ==
    \/ OnTrigger /\ UNCHANGED SessOthers
    \/ SessStartRecording /\ UNCHANGED SessOthers
    \/ SessStopRecording /\ UNCHANGED SessOthers
    \/ SessCancelRecording /\ UNCHANGED SessOthers
    \/ CheckControllerButtons /\ UNCHANGED SessOthers
    \/ SessMultiAxisChanged /\ UNCHANGED SessOthers
    \/ AddSampleBegins /\ UNCHANGED SessOthers
    \/ AddSampleStep /\ UNCHANGED SessOthers

SpecSess == Init /\ [][SessNext]_vars

DeadOthers == <<um_vars, slew_vars, hyst_vars, spike_vars, stab_vars, cal_vars,
               rdp_vars, rec_vars, pipe_vars, snap_vars, grid_vars, poll_vars,
               sess_vars,
          tempo_vars,
          beat_vars,
          prog_vars,
          recal_vars,
          smooth_vars,
          euro_vars,
          commit_vars,
          hist_vars,
          buf_vars,
          lock_vars,
          race_vars,
          tmp_vars>>

DeadNext ==
    \/ DeadFilterCall /\ UNCHANGED DeadOthers
    \/ DeadResetCall /\ UNCHANGED DeadOthers
    \/ DeadConfigure /\ UNCHANGED DeadOthers

SpecDead == Init /\ [][DeadNext]_vars

TempoOthers == <<um_vars, slew_vars, hyst_vars, spike_vars, stab_vars, cal_vars,
                rdp_vars, rec_vars, pipe_vars, snap_vars, grid_vars, poll_vars,
                sess_vars, dead_vars,
          beat_vars,
          prog_vars,
          recal_vars,
          smooth_vars,
          euro_vars,
          commit_vars,
          hist_vars,
          buf_vars,
          lock_vars,
          race_vars,
          tmp_vars>>

TempoNext == EstimateTempoCall /\ UNCHANGED TempoOthers

SpecTempo == Init /\ [][TempoNext]_vars

IoiNext == EstimateTempoFromIoiCall /\ UNCHANGED TempoOthers

SpecIoi == Init /\ [][IoiNext]_vars

BeatOthers == <<um_vars, slew_vars, hyst_vars, spike_vars, stab_vars, cal_vars,
               rdp_vars, rec_vars, pipe_vars, snap_vars, grid_vars, poll_vars,
               sess_vars, dead_vars, tempo_vars,
          prog_vars,
          recal_vars,
          smooth_vars,
          euro_vars,
          commit_vars,
          hist_vars,
          buf_vars,
          lock_vars,
          race_vars,
          tmp_vars>>

BeatNext ==
    \/ DetectBeatsFails /\ UNCHANGED BeatOthers
    \/ DetectBeats /\ UNCHANGED BeatOthers

SpecBeat == Init /\ [][BeatNext]_vars

ProgOthers == <<um_vars, slew_vars, hyst_vars, spike_vars, stab_vars, cal_vars,
               rdp_vars, rec_vars, pipe_vars, snap_vars, grid_vars, poll_vars,
               sess_vars, dead_vars, tempo_vars, beat_vars,
          recal_vars,
          smooth_vars,
          euro_vars,
          commit_vars,
          hist_vars,
          buf_vars,
          lock_vars,
          race_vars,
          tmp_vars>>

ProgNext ==
    \/ DetectBegins /\ UNCHANGED ProgOthers
    \/ DetectExtracts /\ UNCHANGED ProgOthers
    \/ DetectLoads /\ UNCHANGED ProgOthers
    \/ DetectAnalyses /\ UNCHANGED ProgOthers
    \/ DetectReturns /\ UNCHANGED ProgOthers
    \/ TrackBegins /\ UNCHANGED ProgOthers
    \/ TrackExtracts /\ UNCHANGED ProgOthers
    \/ TrackFrame /\ UNCHANGED ProgOthers
    \/ TrackReturns /\ UNCHANGED ProgOthers

SpecProg == Init /\ [][ProgNext]_vars

RecenterOthers == <<um_vars, slew_vars, hyst_vars, spike_vars, stab_vars,
                   rdp_vars, rec_vars, pipe_vars, snap_vars, grid_vars,
                   poll_vars, sess_vars, dead_vars, tempo_vars, beat_vars,
                   prog_vars,
          smooth_vars,
          euro_vars,
          commit_vars,
          hist_vars,
          buf_vars,
          lock_vars,
          race_vars,
          tmp_vars>>

RecenterNext ==
    \/ calibrate_axis /\ UNCHANGED CalOthers
    \/ set_sensitivity /\ UNCHANGED CalOthers
    \/ set_inverted /\ UNCHANGED CalOthers
    \/ recenter /\ UNCHANGED RecenterOthers

SpecRecenter == Init /\ [][RecenterNext]_vars

SmoothOthers == <<um_op, um_ret, um_pushes, um_undos, slew_vars, hyst_vars,
                 spike_vars, stab_vars, cal_vars, rdp_vars, pipe_vars,
                 snap_vars, grid_vars, poll_vars, sess_vars, dead_vars,
                 tempo_vars, beat_vars, prog_vars, recal_vars,
          euro_vars,
          commit_vars,
          hist_vars,
          buf_vars,
          lock_vars,
          race_vars,
          tmp_vars>>

SmoothNext ==
    \/ ImportFunscript /\ UNCHANGED SnapOthers
    \/ SmoothSelection /\ UNCHANGED SmoothOthers

SpecSmooth == Init /\ [][SmoothNext]_vars

EuroOthers == <<um_vars, slew_vars, hyst_vars, spike_vars, stab_vars, cal_vars,
               rdp_vars, rec_vars, pipe_vars, snap_vars, grid_vars, poll_vars,
               sess_vars, dead_vars, tempo_vars, beat_vars, prog_vars,
               recal_vars, smooth_vars,
          commit_vars,
          hist_vars,
          buf_vars,
          lock_vars,
          race_vars,
          tmp_vars>>

EuroNext ==
    \/ EuroFilterCall /\ UNCHANGED EuroOthers
    \/ EuroResetCall /\ UNCHANGED EuroOthers
    \/ EuroConfigure /\ UNCHANGED EuroOthers

SpecEuro == Init /\ [][EuroNext]_vars

CommitOthers == <<um_op, um_ret, um_pushes, um_undos, slew_vars, hyst_vars,
                 spike_vars, stab_vars, cal_vars, rdp_vars, pipe_vars,
                 snap_vars, grid_vars, poll_vars, sess_vars, dead_vars,
                 tempo_vars, beat_vars, prog_vars, recal_vars, smooth_vars,
                 euro_vars,
          hist_vars,
          buf_vars,
          lock_vars,
          race_vars,
          tmp_vars>>

CommitNext ==
    \/ CommitImport /\ UNCHANGED CommitOthers
    \/ CommitStart /\ UNCHANGED CommitOthers
    \/ CommitSample /\ UNCHANGED CommitOthers
    \/ CommitAxes /\ UNCHANGED CommitOthers
    \/ CommitStop /\ UNCHANGED CommitOthers

SpecCommit == Init /\ [][CommitNext]_vars

HistOthers == <<um_op, um_ret, um_pushes, um_undos, slew_vars, hyst_vars,
               spike_vars, stab_vars, cal_vars, rdp_vars, pipe_vars,
               snap_vars, grid_vars, poll_vars, sess_vars, dead_vars,
               tempo_vars, beat_vars, prog_vars, recal_vars, smooth_vars,
               euro_vars, commit_vars,
          buf_vars,
          lock_vars,
          race_vars,
          tmp_vars>>

HistNext ==
    \/ HistImport /\ UNCHANGED HistOthers
    \/ HistStart /\ UNCHANGED HistOthers
    \/ HistSample /\ UNCHANGED HistOthers
    \/ HistAxesChanged /\ UNCHANGED HistOthers
    \/ HistStop /\ UNCHANGED HistOthers
    \/ HistClearRange /\ UNCHANGED HistOthers
    \/ HistSmoothing /\ UNCHANGED HistOthers
    \/ HistBeatSnap /\ UNCHANGED HistOthers
    \/ HistUndo /\ UNCHANGED HistOthers
    \/ HistRedo /\ UNCHANGED HistOthers

SpecHist == Init /\ [][HistNext]_vars

BufOthers == <<um_op, um_ret, um_pushes, um_undos, slew_vars, hyst_vars,
              spike_vars, stab_vars, cal_vars,
              rdp_vars, pipe_vars, snap_vars, grid_vars, poll_vars, sess_vars,
              dead_vars, tempo_vars, beat_vars, prog_vars, recal_vars,
              smooth_vars, euro_vars, commit_vars, hist_vars,
          lock_vars,
          race_vars,
          tmp_vars>>

BufNext ==
    \/ BufStart /\ UNCHANGED BufOthers
    \/ BufSample /\ UNCHANGED BufOthers
    \/ BufCancel /\ UNCHANGED BufOthers
    \/ BufAxesChanged /\ UNCHANGED BufOthers

SpecBuf == Init /\ [][BufNext]_vars

LockOthers == <<um_vars, slew_vars, hyst_vars, spike_vars, stab_vars, cal_vars,
               rdp_vars, rec_vars, pipe_vars, snap_vars, grid_vars, poll_vars,
               sess_vars, dead_vars, tempo_vars, beat_vars, prog_vars,
               recal_vars, smooth_vars, euro_vars, commit_vars, hist_vars,
               buf_vars,
          race_vars,
          tmp_vars>>

LockNext ==
    \/ LockPoll /\ UNCHANGED LockOthers
    \/ lock_axis /\ UNCHANGED LockOthers
    \/ unlock_axis /\ UNCHANGED LockOthers
    \/ toggle_axis_lock /\ UNCHANGED LockOthers

SpecLock == Init /\ [][LockNext]_vars

RaceOthers == <<um_vars, slew_vars, hyst_vars, spike_vars, stab_vars, cal_vars,
               rdp_vars, rec_vars, pipe_vars, snap_vars, grid_vars, poll_vars,
               sess_vars, dead_vars, tempo_vars, beat_vars, prog_vars,
               recal_vars, smooth_vars, euro_vars, commit_vars, hist_vars,
               buf_vars, lock_vars,
          tmp_vars>>

RaceNext ==
    \/ CalibrateAxisWritesMin /\ UNCHANGED RaceOthers
    \/ RecenterWritesMin /\ UNCHANGED RaceOthers
    \/ AutoCalibrateWritesMin /\ UNCHANGED RaceOthers
    \/ UpdateWritesMax /\ UNCHANGED RaceOthers
    \/ MapValueReadsMax /\ UNCHANGED RaceOthers
    \/ MapValueReadsMin /\ UNCHANGED RaceOthers

SpecRace == Init /\ [][RaceNext]_vars

TmpOthers == <<um_vars, slew_vars, hyst_vars, spike_vars, stab_vars, cal_vars,
              rdp_vars, rec_vars, pipe_vars, snap_vars, grid_vars, poll_vars,
              sess_vars, dead_vars, tempo_vars, beat_vars, prog_vars,
              recal_vars, smooth_vars, euro_vars, commit_vars, hist_vars,
              buf_vars, lock_vars, race_vars>>

TmpNext ==
    \/ TmpBegins /\ UNCHANGED TmpOthers
    \/ TmpChecksFfmpeg /\ UNCHANGED TmpOthers
    \/ TmpMakesFile /\ UNCHANGED TmpOthers
    \/ TmpRunsFfmpeg /\ UNCHANGED TmpOthers
    \/ TmpLoads /\ UNCHANGED TmpOthers
    \/ TmpAnalyses /\ UNCHANGED TmpOthers
    \/ TmpFinally /\ UNCHANGED TmpOthers
    \/ TmpReturned /\ UNCHANGED TmpOthers

SpecTmp == Init /\ [][TmpNext]_vars

(***************************************************************************)
(* The claims                                                              *)
(***************************************************************************)

\* C1: the undo stack never holds more than max_history entries; a push onto
\* a full stack evicts exactly the oldest entry and appends the new one, and
\* every push leaves the redo stack empty; undo and redo each move exactly
\* one entry (the top) from one stack to the other; with an empty source
\* stack they return None and change neither stack.
C1_UndoManagerContract ==
    [][ /\ Len(undo_stack') <= max_history
        /\ um_op' = "push" =>
              /\ redo_stack' = <<>>
              /\ IF Len(undo_stack) = max_history
                 THEN undo_stack' = Append(Tail(undo_stack), um_pushes')
                 ELSE undo_stack' = Append(undo_stack, um_pushes')
        /\ (um_op' = "undo" /\ um_undos' # um_undos) =>
              IF undo_stack = <<>>
              THEN um_ret' = None /\ undo_stack' = undo_stack
                                  /\ redo_stack' = redo_stack
              ELSE /\ um_ret' = Some(undo_stack[Len(undo_stack)])
                   /\ Append(undo_stack', um_ret'[1]) = undo_stack
                   /\ redo_stack' = Append(redo_stack, um_ret'[1])
        /\ (um_op' = "redo" /\ um_undos' = um_undos) =>
              IF redo_stack = <<>>
              THEN um_ret' = None /\ undo_stack' = undo_stack
                                  /\ redo_stack' = redo_stack
              ELSE /\ um_ret' = Some(redo_stack[Len(redo_stack)])
                   /\ Append(redo_stack', um_ret'[1]) = redo_stack
                   /\ undo_stack' = Append(undo_stack, um_ret'[1])
      ]_vars

\* a full stack has just evicted its oldest entry, and an undo has moved one
C1_Witness ==
    /\ Len(undo_stack) = max_history - 1
    /\ undo_stack[1] = 2
    /\ Len(redo_stack) = 1
    /\ um_op = "undo"

\* C3: every filter call after the first changes the output by at most
\* max_rate * dt, dt being the time since the stored timestamp (which only a
\* call with dt > 0, or the first call, advances); a call with dt <= 0
\* returns the previous output and changes nothing; the first call returns x.
C3_SlewBounded ==
    slew_call # None =>
        LET c == slew_call[1]
        IN  IF c.before.prev = None
            THEN c.ret = c.x
            ELSE LET dt == c.t - c.before.t_prev[1]
                 IN  /\ slew_out = c.before.prev
                     /\ IF dt <= 0
                        THEN c.ret = slew_out[1] /\ slew.prev = c.before.prev
                                                 /\ slew.t_prev = c.before.t_prev
                        ELSE /\ Abs(c.ret - slew_out[1]) <= c.before.max_rate * dt
                             /\ slew.t_prev = Some(c.t)

\* a call whose input was more than max_rate * dt away and was limited
C3_Witness ==
    /\ slew_call # None
    /\ slew_call[1].before.prev # None
    /\ slew_call[1].t - slew_call[1].before.t_prev[1] = 2
    /\ slew_call[1].ret # slew_call[1].x
    /\ slew_call[1].ret # slew_call[1].before.prev[1]

\* C4: with no direction established, an input less than band away from the
\* last-emitted value does not change the emitted value; with a direction
\* established, an input against it by less than 2 * band neither flips the
\* direction nor changes the emitted value; an input further along the
\* established direction is emitted.
C4_HysteresisBand ==
    (hyst_call # None /\ hyst_call[1].before.last_emitted # None) =>
        LET c == hyst_call[1]
            last == c.before.last_emitted[1]
            dir == c.before.direction
            delta == c.value - last
        IN  /\ (dir = 0 /\ 10 * Abs(delta) < c.before.band) =>
                   /\ c.ret = last
                   /\ c.after.last_emitted = Some(last)
            /\ (dir # 0 /\ delta * dir < 0 /\ 10 * Abs(delta) < 2 * c.before.band) =>
                   /\ c.ret = last
                   /\ c.after.last_emitted = Some(last)
                   /\ c.after.direction = dir
            /\ (dir # 0 /\ delta * dir > 0) =>
                   /\ c.ret = c.value
                   /\ c.after.last_emitted = Some(c.value)

\* a rising filter held its value against a fall between band and 2 * band
C4_Witness ==
    /\ hyst_call # None
    /\ hyst_call[1].before.last_emitted # None
    /\ hyst_call[1].before.direction = 1
    /\ hyst_call[1].before.band = 15
    /\ hyst_call[1].value - hyst_call[1].before.last_emitted[1] = -2
    /\ hyst_call[1].ret = hyst_call[1].before.last_emitted[1]

C6_ScaledOnce ==
    /\ \A a \in Axes :
          LET c == stab_assigned[a]
              k == IF a \in {"pitch", "yaw", "roll"} THEN 60 ELSE 1
              st == stabilizers[a]
              eff == cfg_heap[st.effective_config]
          IN  /\ st.spike.threshold = k * c.spike_threshold
              /\ st.slew.max_rate = k * c.slew_max_rate
              /\ st.jerk.max_jerk = k * c.jerk_max_jerk
              /\ st.deadzone.threshold = c.deadzone_threshold
              /\ st.hysteresis.band = c.hysteresis_band
              /\ eff.spike_threshold = k * c.spike_threshold
              /\ eff.slew_max_rate = k * c.slew_max_rate
              /\ eff.jerk_max_jerk = k * c.jerk_max_jerk
              /\ eff.deadzone_threshold = c.deadzone_threshold
              /\ eff.hysteresis_band = c.hysteresis_band
              /\ cfg_heap[AxisStabilizer_get_config(st)] = c
              /\ c = Pristine(st.config)
    /\ \A ref \in PresetRefs \cup UserRefs : cfg_heap[ref] = Pristine(ref)

\* yaw was given the config read back from roll, a caller's object that roll
\* had been given after a preset change: scaled once, 60 * 0.6 = 36.0
C6_Witness ==
    /\ stab_op = "set_axis_config(get_config())"
    /\ stabilizers["yaw"].config = <<"user", 1>>
    /\ stabilizers["roll"].config = <<"user", 1>>
    /\ stabilizers["pitch"].config = <<"preset", "heavy">>
    /\ stabilizers["yaw"].spike.threshold = 360
    /\ stabilizers["pitch"].spike.threshold = 180
    /\ stabilizers["x"].config = <<"preset", "heavy">>

\* C7: with max_val > min_val, a sensitivity > 0 and no inversion, map_value
\* returns an integer in 0..100 and a larger raw never maps lower; with
\* max_val = min_val it returns 50; with min -0.3, max 0.3, sensitivity 2.0
\* raw 0.0 maps to 50 and raw 0.3 to 100.
C7_MapValue ==
    /\ \A i \in 1..Len(cal_calls) :
          /\ cal.max_val = cal.min_val => cal_calls[i].ret = 50
          /\ (cal.max_val > cal.min_val /\ cal.sensitivity > 0 /\ ~cal.inverted) =>
                 cal_calls[i].ret \in 0..100
    /\ (Len(cal_calls) = 2 /\ cal.max_val > cal.min_val /\ cal.sensitivity > 0
            /\ ~cal.inverted /\ cal_calls[1].raw <= cal_calls[2].raw) =>
           cal_calls[1].ret <= cal_calls[2].ret
    /\ (cal.min_val = -300 /\ cal.max_val = 300 /\ cal.sensitivity = 20
            /\ ~cal.inverted) =>
           \A i \in 1..Len(cal_calls) :
               /\ cal_calls[i].raw = 0 => cal_calls[i].ret = 50
               /\ cal_calls[i].raw = 300 => cal_calls[i].ret = 100

\* the scenario's calibration mapped raw 0.0 and then raw 0.3
C7_Witness ==
    /\ cal.min_val = -300 /\ cal.max_val = 300 /\ cal.sensitivity = 20
    /\ ~cal.inverted
    /\ Len(cal_calls) = 2
    /\ cal_calls[1] = [raw |-> 0, ret |-> 50]
    /\ cal_calls[2] = [raw |-> 300, ret |-> 100]

\* normalized * 100 of a call, as twice its value: an odd integer at a tie
Doubled(call) == FracMul(Normalized(cal, call.raw), Frac(200, 1))

IsTie(call) ==
    /\ cal.max_val # cal.min_val
    /\ Doubled(call).n % Doubled(call).d = 0
    /\ (Doubled(call).n \div Doubled(call).d) % 2 = 1

\* C8 as claimed: whenever normalized * 100 is exactly k + 0.5, map_value
\* returns k + 1 (ties away from zero).
C8_TiesAwayFromZero ==
    \A i \in 1..Len(cal_calls) :
        IsTie(cal_calls[i]) =>
            LET k == ((Doubled(cal_calls[i]).n \div Doubled(cal_calls[i]).d) - 1) \div 2
            IN  cal_calls[i].ret = k + 1

\* C8 amended: map_value returns an integer nearest to normalized * 100, and
\* when normalized * 100 is exactly k + 0.5 it returns the even one of k and
\* k + 1.
C8_TiesToEven ==
    \A i \in 1..Len(cal_calls) :
        cal.max_val # cal.min_val =>
            LET twice == Doubled(cal_calls[i])
                ret == cal_calls[i].ret
            IN  /\ Abs(twice.n - 2 * ret * twice.d) <= twice.d
                /\ IsTie(cal_calls[i]) => ret % 2 = 0

\* the default calibration mapped raw 0.125 (12.5) to 12 and raw 0.075 (7.5)
\* to 8
C8_Witness ==
    /\ cal = AxisCalibration_new
    /\ Len(cal_calls) = 2
    /\ cal_calls[1] = [raw |-> 125, ret |-> 12]
    /\ cal_calls[2] = [raw |-> 75, ret |-> 8]

\* s is t with some entries left out, the order kept
RECURSIVE IsSubsequence(_, _)
IsSubsequence(s, t) ==
    IF s = <<>> THEN TRUE
    ELSE IF t = <<>> THEN FALSE
    ELSE IF Head(s) = Head(t) THEN IsSubsequence(Tail(s), Tail(t))
    ELSE IsSubsequence(s, Tail(t))

\* C9: what _reduce_points returns is a subsequence of its input, in order,
\* with the input's first and last points as its first and last, and no
\* longer than the input; an input of 2 or fewer points is returned as is.
C9_RdpSubsequence ==
    rdp_pc = "done" =>
        /\ IsSubsequence(rdp_out, rdp_in)
        /\ Len(rdp_out) <= Len(rdp_in)
        /\ rdp_in # <<>> =>
              /\ rdp_out # <<>>
              /\ rdp_out[1] = rdp_in[1]
              /\ rdp_out[Len(rdp_out)] = rdp_in[Len(rdp_in)]
        /\ Len(rdp_in) <= 2 => rdp_out = rdp_in

\* four points were reduced to three: an interior point dropped, one kept
C9_Witness ==
    /\ rdp_pc = "done"
    /\ Len(rdp_in) = 4
    /\ Len(rdp_out) = 3
    /\ rdp_out[2] = rdp_in[3]
    /\ rdp_epsilon = 15

AsPoint(action) == <<action.at, action.pos>>

\* the input points _reduce_points left out
Dropped == {i \in 1..Len(rdp_in) : \A j \in 1..Len(rdp_out) : rdp_out[j] # rdp_in[i]}

\* the retained points next to a dropped one
KeptBefore(i) ==
    rdp_out[CHOOSE j \in 1..Len(rdp_out) :
                /\ rdp_out[j].at < rdp_in[i].at
                /\ \A k \in 1..Len(rdp_out) :
                       rdp_out[k].at < rdp_in[i].at => k <= j]

KeptAfter(i) ==
    rdp_out[CHOOSE j \in 1..Len(rdp_out) :
                /\ rdp_out[j].at > rdp_in[i].at
                /\ \A k \in 1..Len(rdp_out) :
                       rdp_out[k].at > rdp_in[i].at => k >= j]

\* C10: every dropped point is at most epsilon (normalized perpendicular
\* distance) from the chord between the retained points next to it; an
\* input of 3 or more points comes back as its two endpoints exactly when
\* no interior point is farther than epsilon from the first-last chord; the
\* scenario (100,10),(105,12),(900,80) with epsilon 1.5 comes back as 2
\* points.
C10_RdpWithinEpsilon ==
    rdp_pc = "done" =>
        /\ \A i \in Dropped :
              ~ExceedsEpsilon(_perpendicular_distance(AsPoint(rdp_in[i]),
                                                      AsPoint(KeptBefore(i)),
                                                      AsPoint(KeptAfter(i))),
                              rdp_epsilon)
        /\ Len(rdp_in) >= 3 =>
              (Len(rdp_out) = 2 <=>
                  \A i \in 2..(Len(rdp_in) - 1) :
                      ~ExceedsEpsilon(
                          _perpendicular_distance(AsPoint(rdp_in[i]),
                                                  AsPoint(rdp_in[1]),
                                                  AsPoint(rdp_in[Len(rdp_in)])),
                          rdp_epsilon))
        /\ (rdp_in = RdpScenario /\ rdp_epsilon = 15) => Len(rdp_out) = 2

\* the scenario was reduced to its two endpoints
C10_Witness ==
    /\ rdp_pc = "done"
    /\ rdp_in = RdpScenario
    /\ rdp_epsilon = 15
    /\ rdp_out = <<RdpScenario[1], RdpScenario[3]>>

\* a point near its neighbours' chord was dropped although the input's own
\* first-last chord is far from it
C10_WitnessDropped ==
    /\ rdp_pc = "done"
    /\ Len(rdp_in) = 4
    /\ Len(rdp_out) = 3
    /\ Dropped = {2}
    /\ ExceedsEpsilon(_perpendicular_distance(AsPoint(rdp_in[2]), AsPoint(rdp_in[1]),
                                              AsPoint(rdp_in[4])), rdp_epsilon)

\* the timestamps of an axis's actions, in list order
Timestamps(axis_name) ==
    [i \in DOMAIN axis_actions[axis_name] |-> rec_heap[axis_actions[axis_name][i]].at]

\* C2: after any sequence of stop_recording commits, clear_range,
\* apply_smoothing, beat-snap, Recorder.undo and Recorder.redo, every axis's
\* action list is sorted ascending by at and no two of its actions share a
\* timestamp.
C2_SortedUnique ==
    \A a \in RecAxes :
        \A i, j \in DOMAIN Timestamps(a) : i < j => Timestamps(a)[i] < Timestamps(a)[j]

\* what filter `through` is left as and what it passes on when its stage is
\* enabled; the filter untouched and the value as it came otherwise
StageOutcome(enabled, filter, through, val) ==
    IF enabled THEN through ELSE [self |-> filter, ret |-> val]

\* C11: process runs exactly the enabled stages among spike rejection, one
\* euro, slew limiter and jerk limiter, in that order, each on the value the
\* stage before it passed on; post_map runs the deadzone and then the
\* hysteresis filter in the same way; a disabled stage leaves the value and
\* its filter alone, so that with every stage disabled process(raw, t)
\* returns raw and post_map(m) returns m.
C11_StagesInOrder ==
    [][ LET c == PipeHeap[pipe.effective_config]
            arg == pipe_call'.arg
            t == pipe_call'.t
            spike1 == StageOutcome(c.spike_rejection_enabled, pipe.spike,
                                   SpikeRejector_filter(pipe.spike, arg), arg)
            euro2 == StageOutcome(c.one_euro_enabled, pipe.one_euro,
                                  OneEuroFilter_filter(pipe.one_euro, spike1.ret, t),
                                  spike1.ret)
            slew3 == StageOutcome(c.slew_rate_enabled, pipe.slew,
                                  SlewRateLimiter_filter(pipe.slew, euro2.ret, t),
                                  euro2.ret)
            jerk4 == StageOutcome(c.jerk_limiter_enabled, pipe.jerk,
                                  JerkLimiter_filter(pipe.jerk, slew3.ret, t),
                                  slew3.ret)
            dead1 == StageOutcome(c.deadzone_enabled, pipe.deadzone,
                                  DeadzoneFilter_filter(pipe.deadzone, arg), arg)
            hyst2 == StageOutcome(c.hysteresis_enabled, pipe.hysteresis,
                                  HysteresisFilter_filter(pipe.hysteresis, dead1.ret),
                                  dead1.ret)
            off == STABILIZATION_PRESETS["off"]
        IN  /\ pipe_call'.op = "process" =>
                  /\ pipe_call'.ret = jerk4.ret
                  /\ pipe'.spike = spike1.self
                  /\ pipe'.one_euro = euro2.self
                  /\ pipe'.slew = slew3.self
                  /\ pipe'.jerk = jerk4.self
                  /\ pipe'.deadzone = pipe.deadzone
                  /\ pipe'.hysteresis = pipe.hysteresis
                  /\ c = off => pipe_call'.ret = arg /\ pipe' = pipe
            /\ pipe_call'.op = "post_map" =>
                  /\ pipe_call'.ret = hyst2.ret
                  /\ pipe'.deadzone = dead1.self
                  /\ pipe'.hysteresis = hyst2.self
                  /\ pipe'.spike = pipe.spike
                  /\ pipe'.one_euro = pipe.one_euro
                  /\ pipe'.slew = pipe.slew
                  /\ pipe'.jerk = pipe.jerk
                  /\ c = off => pipe_call'.ret = arg /\ pipe' = pipe
      ]_vars

\* preset "off", its filters holding samples of an earlier preset: process
\* has returned a raw value the slew limiter would have held back
C11_Witness ==
    /\ pipe_call.op = "process"
    /\ pipe.config = <<"preset", "off">>
    /\ pipe.slew.prev # None
    /\ pipe.slew.max_rate * (pipe_call.t - pipe.slew.t_prev[1])
           < Abs(pipe_call.arg - pipe.slew.prev[1])
    /\ pipe_call.ret = pipe_call.arg

\* C12: after reset() every call of process and post_map returns what the
\* same call returns on a stabilizer constructed at the moment of the reset
\* with the same axis name and config and given the same calls since, and the
\* two hold the same filter states.
C12_ResetIsFresh ==
    pipe_twin # None =>
        /\ pipe = pipe_twin[1]
        /\ pipe_call.op \in {"process", "post_map"} =>
              pipe_call.ret = pipe_call.twin_ret[1]

\* a stabilizer was reset, and in the post_map calls since its hysteresis
\* filter has latched a direction again, returning what the twin returned
C12_Witness ==
    /\ pipe_twin # None
    /\ pipe_call.op = "post_map"
    /\ pipe.hysteresis.direction # 0
    /\ pipe_call.ret = pipe_call.twin_ret[1]
    /\ pipe_call.ret # 0

\* C13: set_preset(p) with a known p gives all six axes p's config and makes
\* preset_name p; with an unknown name it changes nothing; set_axis_config on
\* a known axis changes that axis alone and makes preset_name "custom".  So
\* on a manager built with a known preset, whenever preset_name is off,
\* light, medium or heavy, every axis holds exactly that preset's config.
C13_PresetNameTellsConfig ==
    /\ [](mgr.preset_name \in PresetNames =>
             /\ mgr.config = <<"preset", mgr.preset_name>>
             /\ \A a \in Axes :
                   /\ AxisStabilizer_get_config(stabilizers[a]) = mgr.config
                   /\ cfg_heap[mgr.config] = STABILIZATION_PRESETS[mgr.preset_name]
                   /\ stabilizers[a].hysteresis.band
                          = STABILIZATION_PRESETS[mgr.preset_name].hysteresis_band)
    /\ [][ /\ (stab_op' = "set_preset" /\ stab_arg'.preset \in PresetNames) =>
                  /\ mgr'.preset_name = stab_arg'.preset
                  /\ \A a \in Axes :
                        cfg_heap'[AxisStabilizer_get_config(stabilizers'[a])]
                            = STABILIZATION_PRESETS[stab_arg'.preset]
           /\ (stab_op' = "set_preset" /\ stab_arg'.preset \notin PresetNames) =>
                  UNCHANGED <<mgr, stabilizers, cfg_heap>>
           /\ (stab_op' \in {"set_axis_config", "set_axis_config(get_config())"}
                   /\ stab_arg'.axis_name \in Axes) =>
                  /\ mgr'.preset_name = "custom"
                  /\ AxisStabilizer_get_config(stabilizers'[stab_arg'.axis_name])
                         = stab_arg'.config
                  /\ \A a \in Axes \ {stab_arg'.axis_name} :
                         stabilizers'[a] = stabilizers[a]
       ]_vars

\* set_preset("heavy") has put every axis on the heavy preset, the rotation
\* axes on their scaled copies of it
C13_Witness ==
    /\ stab_op = "set_preset"
    /\ stab_arg.preset = "heavy"
    /\ mgr.preset_name = "heavy"
    /\ \A a \in Axes : stabilizers[a].config = <<"preset", "heavy">>
    /\ cfg_heap[<<"copy", "roll">>].spike_threshold = 180

\* the last beat-snap call went through the loop over its target
SnapRan ==
    /\ snap_call # None
    /\ snap_call[1].strength # None
    /\ snap_call[1].beat_data # None
    /\ snap_call[1].before # <<>>

\* the actions of the axis after the call
SnapAfter == Values(rec_heap, axis_actions["stroke"])

SnapAts(actions) == {actions[i].at : i \in DOMAIN actions}

\* the grid point nearest to action b at the last call
SnapNearest(b) == NearestGridPoint(get_beat_grid(snap_call[1].beat_data[1]), b.at)

\* b is no further from it than 60% of one beat interval, 60000 / bpm ms
SnapWithin(b) ==
    10 * Abs(SnapNearest(b) - b.at) * snap_call[1].beat_data[1].bpm <= 6 * 60000

\* b was in the target of the last call: in the selection, if there was one
SnapTargeted(b) ==
    \/ snap_call[1].selection[1] < 0
    \/ snap_call[1].selection[1] <= b.at /\ b.at <= snap_call[1].selection[2]

\* C14: after a beat snap of strength 100 the timestamps on the axis are the
\* nearest grid point of every targeted action that was within tolerance of
\* it, and the old timestamp of every other action; after a beat snap of
\* strength 0, and after one the handler declined to apply because the
\* slider was at 0, the axis has the timestamps it had.
C14_SnapStrength ==
    /\ SnapRan =>
          LET c == snap_call[1]
          IN  /\ c.strength[1] = 100 =>
                    SnapAts(SnapAfter) =
                        {IF SnapTargeted(c.before[i]) /\ SnapWithin(c.before[i])
                         THEN SnapNearest(c.before[i])
                         ELSE c.before[i].at : i \in DOMAIN c.before}
              /\ c.strength[1] = 0 =>
                    [i \in DOMAIN SnapAfter |-> SnapAfter[i].at]
                        = [i \in DOMAIN c.before |-> c.before[i].at]
    /\ (snap_call # None /\ snap_call[1].strength = None) =>
          SnapAfter = snap_call[1].before

\* strength 100 without a selection: 100 and 140 are both on 125 now, 1000
\* is where it was
C14_Witness ==
    /\ SnapRan
    /\ snap_call[1].strength = Some(100)
    /\ snap_call[1].selection = NoSelection
    /\ SnapAts(snap_call[1].before) = {100, 140, 1000}
    /\ SnapAts(SnapAfter) = {125, 1000}

GridAt(i, s) ==
    grid_call[1].ret[(i - 1) * grid_call[1].self.subdivisions + s + 1]

\* the returned grid has (n - 1) * subdivisions + 1 ascending points and ends
\* with the last beat; with fewer than 2 beats it has the beats; the BeatData
\* is as it was before the call
GridShape ==
    LET self == grid_call[1].self
        ret == grid_call[1].ret
        n == Len(self.beats)
    IN  /\ grid_bd = self
        /\ n < 2 => ret = self.beats
        /\ n >= 2 =>
              /\ Len(ret) = (n - 1) * self.subdivisions + 1
              /\ \A i, j \in DOMAIN ret : i < j => ret[i] <= ret[j]
              /\ ret[Len(ret)] = self.beats[n]
              /\ \A i \in 1..n : \E j \in DOMAIN ret : ret[j] = self.beats[i]
        /\ (self.beats = <<0, 1000, 2000>> /\ self.subdivisions = 4) =>
              ret = <<0, 250, 500, 750, 1000, 1250, 1500, 1750, 2000>>

\* C16 as stated: ..., and the subdivisions points of a pair of beats are
\* evenly spaced from the earlier beat: the s-th is s / subdivisions of the
\* way to the later one.
C16_GridEven ==
    grid_call # None =>
        /\ GridShape
        /\ LET self == grid_call[1].self
           IN  Len(self.beats) >= 2 =>
                   \A i \in 1..(Len(self.beats) - 1), s \in 0..(self.subdivisions - 1) :
                       self.subdivisions * (GridAt(i, s) - self.beats[i])
                           = s * (self.beats[i + 1] - self.beats[i])

\* C16: get_beat_grid leaves the BeatData as it is; for n >= 2 beats it
\* returns (n - 1) * subdivisions + 1 ascending points, ending with the last
\* beat and holding every beat, the s-th point of a pair of beats being the
\* whole millisecond at or just below s / subdivisions of the way from the
\* earlier beat to the later; for fewer than 2 beats it returns the beats;
\* for beats [0, 1000, 2000] and 4 subdivisions it returns
\* [0, 250, 500, 750, 1000, 1250, 1500, 1750, 2000].
C16_GridTruncated ==
    grid_call # None =>
        /\ GridShape
        /\ LET self == grid_call[1].self
           IN  Len(self.beats) >= 2 =>
                   \A i \in 1..(Len(self.beats) - 1), s \in 0..(self.subdivisions - 1) :
                       LET scaled == self.subdivisions * (GridAt(i, s) - self.beats[i])
                           way == s * (self.beats[i + 1] - self.beats[i])
                       IN  scaled <= way /\ way < scaled + self.subdivisions

\* beats [0, 10] with 4 subdivisions: the steps of 2.5 ms give 0, 2, 5, 7
C16_Witness ==
    /\ grid_call # None
    /\ grid_call[1].self.beats = <<0, 10>>
    /\ grid_call[1].self.subdivisions = 4
    /\ grid_call[1].ret = <<0, 2, 5, 7, 10>>


\* poll_once has passed the sample through some of the filters and not yet
\* through all of them
MidSample == poll_pc \in {"kalman_done", "premap_done"}

\* a step of the interactive thread that writes a filter's state or
\* thresholds
InteractiveFilterWrite == filters' # filters /\ poll_pc' = poll_pc

\* C17: no filter object is accessed concurrently: the interactive thread is
\* never inside reset_filters, and never writes the state or the thresholds
\* of a filter (reset_filters, set_stabilization_preset, unlock_axis), while
\* poll_once is in the middle of processing a sample through the filters.
C17_FiltersOwnedByPollLoop ==
    /\ [](ui_pc = "reset_filters" => ~MidSample)
    /\ [][InteractiveFilterWrite => ~MidSample]_vars


\* the ControllerState with this id is no longer being filled in by poll_once
Complete(id) == id # poll_state.id \/ poll_state.complete

\* C18: the polling loop changes the slot and the history only while it holds
\* the state lock, and get_current_state reads the slot only while it holds
\* the same lock; the reader gets the one snapshot in the slot, complete and
\* stored by the poller (or the initial default), never an older one than it
\* got before; and whenever the polling loop does not hold the lock after the
\* first poll, the newest history entry is the snapshot in the slot and the
\* history holds at most 50 entries.
C18_SharedStateSlot ==
    /\ [](/\ Complete(_current_state)
          /\ Complete(ui_read)
          /\ ui_read <= _current_state
          /\ (_state_lock = "poll") = (poll_pc \in {"locked", "stored", "appended"})
          /\ (_state_lock = "ui") = (ui_pc = "get_current_state")
          /\ (_state_lock # "poll" /\ _current_state # 0
                => /\ _history # <<>>
                   /\ _history[Len(_history)] = _current_state
                   /\ Len(_history) <= history_maxlen))
    /\ [][/\ (_current_state' # _current_state \/ _history' # _history
                => _state_lock = "poll" /\ _state_lock' = "poll")
          /\ (ui_read' # ui_read
                => /\ _state_lock = "ui"
                   /\ ui_read' = _current_state
                   /\ ui_read' > ui_read)]_vars

\* the history is full and has dropped its oldest entries, and the reader
\* holds a snapshot that the poller has since replaced
C18_Witness ==
    /\ Len(_history) = history_maxlen
    /\ _history[1] > 1
    /\ _state_lock = "free"
    /\ ui_read > 0
    /\ ui_read < _current_state


\* trigger_pressed in the state of the iteration before this one
PrevPressed ==
    IF poll_state.id >= 2 THEN ctrl_pressed[poll_state.id - 1] ELSE FALSE

\* the trigger is pressed in this iteration's state and was not in the
\* previous iteration's
RisingEdge == poll_state.trigger_pressed /\ ~PrevPressed

\* the callbacks called so far in this iteration
Invoked == {buttons.invoked[i] : i \in 1..Len(buttons.invoked)}

\* C19: in each polling iteration the callbacks of a button are invoked if
\* and only if the button is pressed in this iteration's state and was not in
\* the previous iteration's; then every registered callback is invoked, once
\* and in order, also after an earlier one raised; and a raising callback
\* does not end the polling loop, which comes round to its next iteration.
C19_RisingEdge ==
    /\ [](poll_pc \in {"edges", "callbacks", "update_prev"}
            => buttons.prev_trigger = PrevPressed)
    /\ [](poll_pc = "update_prev"
            => /\ RisingEdge => buttons.edge /\ buttons.next > Len(buttons.invoked)
               /\ ~RisingEdge => buttons.invoked = <<>>)
    /\ [][/\ (buttons'.invoked # buttons.invoked /\ buttons'.invoked # <<>>
                => RisingEdge /\ poll_pc = "callbacks")
          /\ (poll_pc = "callbacks" /\ poll_pc' # "callbacks"
                => /\ poll_pc' = "update_prev"
                   /\ buttons.invoked = [i \in 1..Len(buttons.callbacks) |-> i])]_vars
    /\ \A i \in 1..MaxCallbacks :
          (poll_pc = "callbacks" /\ i <= Len(buttons.callbacks)) ~> (i \in Invoked)
    /\ (poll_pc = "callbacks") ~> (poll_pc = "loop")

\* the trigger was held over two polls and is pressed again after a release;
\* the first of two callbacks raised and the second was called all the same
C19_Witness ==
    /\ poll_pc = "update_prev"
    /\ RisingEdge
    /\ poll_state.id = 3
    /\ ctrl_pressed = <<TRUE, FALSE, TRUE>>
    /\ buttons.callbacks = <<"raises", "returns">>
    /\ buttons.invoked = <<1, 2>>

\* the trigger is held over consecutive polls: the second poll calls nothing
C19_Held ==
    /\ poll_pc = "update_prev"
    /\ poll_state.id = 2
    /\ ctrl_pressed = <<TRUE, TRUE>>
    /\ buttons.callbacks # <<>>
    /\ buttons.invoked = <<>>


\* the actions of every axis, by value
AxesView == [a \in RecAxes |-> Values(rec_heap, axis_actions[a])]

\* the entries of an undo or redo stack, by value
StackView(stack) ==
    [i \in DOMAIN stack |->
        [type |-> stack[i].type,
         axis_name |-> stack[i].segment.axis_name,
         start_ms |-> stack[i].segment.start_ms,
         end_ms |-> stack[i].segment.end_ms,
         actions |-> Values(rec_heap, stack[i].segment.actions),
         previous |-> Values(rec_heap, stack[i].previous)]]

\* the project and both stacks, by value
ProjectView == <<AxesView, StackView(undo_stack), StackView(redo_stack)>>

\* the buffered actions, by value
BufferView ==
    [i \in DOMAIN _buffer |->
        [axis_name |-> _buffer[i].axis_name,
         actions |-> Values(rec_heap, _buffer[i].actions)]]

\* the buffered actions of all axes in one list, by value
Buffered == Values(rec_heap, BufferRefs(_buffer))

\* this step is a call of the Recorder method op
Calls(op) == sess_call' # sess_call /\ sess_call'.op = op

\* C20: in any interleaving of start_recording, add_sample, stop_recording
\* and cancel_recording, add_sample called while no recording is active
\* changes neither the buffer nor the project; cancel_recording empties the
\* buffer and leaves every axis and both stacks as they were; from the
\* return of stop_recording or cancel_recording to the next start_recording
\* the buffer is empty; and stop_recording and cancel_recording never run
\* while add_sample is inside its loop.
C20_RecordingSession ==
    /\ [](~is_recording => _buffer = <<>> /\ qt_pc = "idle")
    /\ [][/\ (Calls("add_sample") /\ ~is_recording
                => /\ BufferView' = BufferView
                   /\ ProjectView' = ProjectView
                   /\ qt_pc' = "idle")
          /\ (Buffered' # Buffered /\ Buffered' # <<>>
                => is_recording /\ qt_pc = "add_sample")
          /\ (Calls("cancel_recording")
                => /\ _buffer' = <<>>
                   /\ ~is_recording'
                   /\ ProjectView' = ProjectView)
          /\ (Calls("stop_recording") => _buffer' = <<>> /\ ~is_recording')
          /\ (Calls("stop_recording") \/ Calls("cancel_recording")
                => qt_pc = "idle")]_vars

\* a second recording was cancelled after samples had been buffered in it,
\* the first having been committed
C20_Witness ==
    /\ sess_call.op = "cancel_recording"
    /\ rec_calls.starts = 2
    /\ undo_stack # <<>>
    /\ \E a \in DOMAIN _last_sample_time : _last_sample_time[a] >= 0

\* add_sample was called after a recording was stopped and committed
C20_AddSampleIdleReached ==
    /\ sess_call.op = "add_sample"
    /\ ~is_recording
    /\ undo_stack # <<>>


\* the filter call that was made had a last-emitted value to compare with
HystCompared == hyst_call # None /\ hyst_call[1].before.last_emitted # None

\* the call emitted its input as the new last-emitted value
HystEmitted ==
    /\ hyst_call[1].ret = hyst_call[1].value
    /\ hyst_call[1].after.last_emitted = Some(hyst_call[1].value)

\* the call repeated the last-emitted value and changed nothing
HystRepeated ==
    /\ hyst_call[1].ret = hyst_call[1].before.last_emitted[1]
    /\ hyst_call[1].after = hyst_call[1].before

\* how a call with the thresholds latch and reverse (in tenths, to compare
\* with 10 * |delta|) must come out
HystThresholds(latches(_, _), reverses(_, _)) ==
    HystCompared =>
        LET c == hyst_call[1]
            dir == c.before.direction
            delta == c.value - c.before.last_emitted[1]
            sign == IF delta > 0 THEN 1 ELSE -1
        IN  /\ (dir = 0 /\ latches(delta, c.before.band))
                   => HystEmitted /\ c.after.direction = sign
            /\ (dir = 0 /\ ~latches(delta, c.before.band)) => HystRepeated
            /\ (dir # 0 /\ delta * dir <= 0 /\ reverses(delta, c.before.band))
                   => HystEmitted /\ c.after.direction = sign
            /\ (dir # 0 /\ delta * dir <= 0 /\ ~reverses(delta, c.before.band))
                   => HystRepeated

\* delta exceeds band
ExceedsBand(delta, band) == 10 * Abs(delta) > band

\* delta exceeds 2 * band
ExceedsTwiceBand(delta, band) == 10 * Abs(delta) > 2 * band

\* delta is at least band
AtLeastBand(delta, band) == 10 * Abs(delta) >= band

\* delta is at least 2 * band
AtLeastTwiceBand(delta, band) == 10 * Abs(delta) >= 2 * band

C21_ReversalAtTwiceBand ==
    /\ HystCompared
    /\ hyst_call[1].before.direction = -1
    /\ hyst_call[1].before.band = 15
    /\ hyst_call[1].value - hyst_call[1].before.last_emitted[1] = 3
    /\ hyst_call[1].after.direction = 1


C22_EmittedAtThreshold ==
    /\ dead_call # None
    /\ dead_out # None
    /\ dead_call[1].before.threshold = 20
    /\ Abs(dead_call[1].value - dead_out[1]) = 2
    /\ dead_call[1].ret = dead_call[1].value

(***************************************************************************)
(* C23: tempo cross-validation in detect_beats.                            *)
(***************************************************************************)

\* a call of detect_beats that got its audio
Analysed == beat_call # None /\ beat_call[1].failure = None

\* what _estimate_tempo gave, the confidence in 1/10000
Autocorr ==
    [bpm |-> beat_call[1].estimated.bpm,
     confidence |-> 10 * beat_call[1].estimated.confidence]

\* autocorr_bpm / ioi_bpm of the call
BpmRatio ==
    LET ioi_bpm == _estimate_tempo_from_ioi(beat_call[1].onsets_ms)
    IN  Ratio(Autocorr.bpm.n * ioi_bpm.d, Autocorr.bpm.d * ioi_bpm.n)

\* the IOI estimate was made and is positive
IoiAvailable ==
    /\ Len(beat_call[1].onsets_ms) >= 4
    /\ _estimate_tempo_from_ioi(beat_call[1].onsets_ms).n > 0

\* the IOI BPM replaces the autocorrelation BPM, with the confidence halved
\* down to 0.1 at least, exactly when the IOI estimate is available and the
\* ratio is above 1.8 or below low; otherwise both are unchanged
CrossValidation(low) ==
    Analysed =>
       IF IoiAvailable /\ (5 * BpmRatio.n > 9 * BpmRatio.d
                           \/ low.d * BpmRatio.n < low.n * BpmRatio.d)
       THEN beat_call[1].tempo =
               [bpm |-> _estimate_tempo_from_ioi(beat_call[1].onsets_ms),
                confidence |-> Max2(1000, Autocorr.confidence \div 2)]
       ELSE beat_call[1].tempo = Autocorr

\* C23 as stated: the IOI BPM replaces the autocorrelation BPM, and the
\* confidence becomes max(0.1, confidence / 2), exactly when the ratio of the
\* two is greater than 1.8 or less than 1 / 1.8
C23_BelowReciprocal == CrossValidation([n |-> 5, d |-> 9])

\* C23, amended: the same with the lower limit 0.55
C23_Below055 == CrossValidation([n |-> 11, d |-> 20])

\* an autocorrelation BPM below 0.55 of the IOI BPM was replaced
C23_Witness ==
    /\ Analysed /\ IoiAvailable
    /\ 20 * BpmRatio.n < 11 * BpmRatio.d
    /\ Autocorr.bpm.n > 0
    /\ beat_call[1].tempo.bpm # Autocorr.bpm
    /\ beat_call[1].tempo.confidence = Max2(1000, Autocorr.confidence \div 2)

(***************************************************************************)
(* C24: the range of the tempo _estimate_tempo reports.                    *)
(***************************************************************************)

\* C24: whenever _estimate_tempo reports a non-zero BPM, 40 <= BPM <= 200,
\* and the reported confidence lies in [0, 1]
C24_TempoIn40To200 ==
    tempo_call # None =>
       LET ret == tempo_call[1].ret
       IN  /\ ret.confidence \in 0..1000
           /\ ret.bpm.n > 0 =>
                 /\ 40 * ret.bpm.d <= ret.bpm.n
                 /\ ret.bpm.n <= 200 * ret.bpm.d

(***************************************************************************)
(* C25: the BeatData detect_beats returns.                                 *)
(***************************************************************************)

\* a sequence of numbers with each element above the one before
StrictlyAscending(s) == \A i \in 1..(Len(s) - 1) : s[i] < s[i + 1]

\* the beat interval of the call's final BPM, in grid time
FinalInterval ==
    Units(Ratio(60000 * beat_call[1].tempo.bpm.d, beat_call[1].tempo.bpm.n))

\* the first beat the grid generated, before the snap to zero
FirstGenerated == beat_call[1].best_phase[1] \div PerMs

\* beats strictly ascending, onsets ascending, bpm at least lowest (tenths),
\* confidence in [0, 1], subdivisions >= 1, and a first generated beat less
\* than 10% of a beat interval from zero is 0
DataModel(lowest) ==
    Analysed =>
       LET bd == beat_call[1].ret[1]
       IN  /\ StrictlyAscending(bd.beats)
           /\ \A i \in 1..(Len(bd.onsets) - 1) : bd.onsets[i] <= bd.onsets[i + 1]
           /\ bd.bpm >= lowest
           /\ bd.confidence \in 0..100
           /\ bd.subdivisions >= 1
           /\ (/\ beat_call[1].best_phase # None
               /\ bd.beats # <<>>
               /\ FirstGenerated * PerMs < FinalInterval \div 10)
              => bd.beats[1] = 0

C25_NoTempo ==
    /\ Analysed
    /\ beat_call[1].ret[1].bpm = 0
    /\ beat_call[1].ret[1].beats # <<>>

(***************************************************************************)
(* C26: detect_beats on unavailable input.                                 *)
(***************************************************************************)

\* C26: detect_beats returns None without raising when numpy or ffmpeg is
\* missing, the extraction fails or times out, or the WAV cannot be read;
\* with the audio in memory, no BPM and some onsets it returns a BeatData
\* whose beats are the onsets
C26_NoResultIsAValue ==
    beat_call # None =>
       /\ beat_call[1].failure # None =>
             ~beat_call[1].raised /\ beat_call[1].ret = None
       /\ (/\ beat_call[1].failure = None
           /\ beat_call[1].tempo.bpm.n = 0
           /\ beat_call[1].onsets_ms # <<>>)
          => /\ ~beat_call[1].raised
             /\ beat_call[1].ret # None
             /\ beat_call[1].ret[1].beats = beat_call[1].onsets_ms

\* ffmpeg timed out and detect_beats returned None
C26_Witness ==
    /\ beat_call # None
    /\ beat_call[1].failure = Some("ffmpeg_timeout")
    /\ ~beat_call[1].raised
    /\ beat_call[1].ret = None

\* the onsets were returned as beats
C26_FellBackToOnsets ==
    /\ Analysed
    /\ beat_call[1].tempo.bpm.n = 0
    /\ Len(beat_call[1].onsets_ms) >= 2
    /\ beat_call[1].ret[1].beats = beat_call[1].onsets_ms

(***************************************************************************)
(* C27: progress reporting of detect_beats and track_roi.                  *)
(***************************************************************************)

\* the values reported so far are non-decreasing, within [0, 1], and begin
\* with 0.0
ProgressInOrder(progress) ==
    /\ \A i \in DOMAIN progress : 0 <= progress[i].n /\ progress[i].n <= progress[i].d
    /\ \A i \in 1..(Len(progress) - 1) :
          progress[i].n * progress[i + 1].d <= progress[i + 1].n * progress[i].d
    /\ progress # <<>> => progress[1].n = 0

\* 1.0 is among the values reported
ReportedDone(progress) == \E i \in DOMAIN progress : progress[i].n = progress[i].d

\* a step reports at most one value, after those reported before
ReportsInTurn(progress, after) ==
    \/ after = progress
    \/ Len(after) = Len(progress) + 1 /\ SubSeq(after, 1, Len(progress)) = progress

\* C27: in every run of detect_beats and of track_roi the values given to
\* progress_callback, one after the other, are non-decreasing, within
\* [0, 1] and begin with 0.0, and a run that has reported 1.0 returns a
\* result: a run that returns None never reported 1.0
C27_Progress ==
    /\ [](/\ ProgressInOrder(det_progress)
          /\ ProgressInOrder(trk_progress)
          /\ det_ret = Some(NoResult) => ~ReportedDone(det_progress)
          /\ trk_ret = Some(NoResult) => ~ReportedDone(trk_progress))
    /\ [][/\ ReportsInTurn(det_progress, det_progress')
          /\ ReportsInTurn(trk_progress, trk_progress')
          /\ ReportedDone(det_progress') => det_ret' = Some("BeatData")
          /\ ReportedDone(trk_progress') => trk_ret' = Some("TrackingResult")]_vars

\* both analyses returned a result after reporting several values, track_roi
\* some of them from inside its loop
C27_Witness ==
    /\ det_ret = Some("BeatData")
    /\ Len(det_progress) = 7
    /\ trk_ret = Some("TrackingResult")
    /\ n_frames = TrackMaxFrames
    /\ Len(trk_progress) = 6

\* a run of track_roi failed after reporting 0.0
C27_TrackFailed ==
    /\ trk_ret = Some(NoResult)
    /\ Len(trk_progress) = 1

(***************************************************************************)
(* C28: the tempo estimate from inter-onset intervals.                     *)
(***************************************************************************)

\* the gaps between consecutive onsets that lie strictly between 150 ms and
\* 2000 ms, by their place
ValidGapsAt(onsets_ms) ==
    {i \in 1..(Len(onsets_ms) - 1) :
        150 < onsets_ms[i + 1] - onsets_ms[i] /\ onsets_ms[i + 1] - onsets_ms[i] < 2000}

\* a BPM between 30 and 400 halved if above 200, doubled if below 50
FoldedOnce(bpm) ==
    IF 200 * bpm.d < bpm.n THEN HalfBpm(bpm)
    ELSE IF bpm.n < 50 * bpm.d THEN TwiceBpm(bpm)
    ELSE bpm

C28_Doubled ==
    /\ ioi_call # None
    /\ ioi_call[1].ret = Ratio(120000, 1999)

(***************************************************************************)
(* C29: recenter.                                                          *)
(***************************************************************************)

\* after recenter() the window of the axis has its midpoint at the current
\* raw reading and its width unchanged, map_value of that reading is 50,
\* and sensitivity, inversion and deadzone are as before
Recentered(call) ==
    /\ call.after.min_val + call.after.max_val = 2 * call.current_raw
    /\ call.after.max_val - call.after.min_val
          = call.before.max_val - call.before.min_val
    /\ AxisCalibration_map_value(call.after, call.current_raw) = 50
    /\ call.after.sensitivity = call.before.sensitivity
    /\ call.after.inverted = call.before.inverted
    /\ call.after.deadzone = call.before.deadzone

\* C29: after recenter() the calibration window's midpoint equals the
\* current raw reading and its half-range is unchanged, so map_value of the
\* reading is 50 whatever the sensitivity and inversion; sensitivity,
\* inversion and deadzone are not modified
C29_Recenter == recenter_call # None => Recentered(recenter_call[1])

\* the same for the windows with max_val > min_val
C29_RecenterPositiveWindow ==
    (/\ recenter_call # None
     /\ recenter_call[1].before.max_val > recenter_call[1].before.min_val)
    => Recentered(recenter_call[1])

\* a window with max_val > min_val was moved, on an inverted axis with a
\* sensitivity other than 1
C29_Moved ==
    /\ recenter_call # None
    /\ recenter_call[1].before.max_val > recenter_call[1].before.min_val
    /\ recenter_call[1].after # recenter_call[1].before
    /\ recenter_call[1].before.inverted
    /\ recenter_call[1].before.sensitivity = 20

(***************************************************************************)
(* C30: moving-average smoothing.                                          *)
(***************************************************************************)

\* the places on the axis of the actions the call targeted, in order
Targeted(call) ==
    SelectSeq([i \in DOMAIN call.before |-> i],
              LAMBDA i : \/ call.selection[1] < 0
                         \/ /\ call.selection[1] <= call.before[i].at
                            /\ call.before[i].at <= call.selection[2])

\* the original positions in the window of the k-th targeted action,
\* clipped to the targeted actions
WindowOf(call, k) ==
    LET half == call.window \div 2
        targeted == Targeted(call)
    IN  [j \in 1..(Min2(Len(targeted), k + half) - Max2(1, k - half) + 1) |->
            call.before[targeted[Max2(1, k - half) + j - 1]].pos]

\* pos is the mean of the window rounded to a nearest integer and clamped
\* to [0, 100]
NearestToMean(pos, window) ==
    \E r \in -1..101 :
        /\ 2 * Abs(r * Len(window) - SumSeq(window)) <= Len(window)
        /\ pos = Max2(0, Min2(100, r))

\* C30: apply_smoothing with window w over n >= w targeted actions keeps the
\* number of actions and every timestamp, and sets the position of each
\* targeted action to the mean of the original positions of its clipped
\* window, rounded to the nearest integer and clamped to [0, 100], so that
\* it lies between the least and the greatest original position of the
\* window; with fewer than w targeted actions nothing is changed and no undo
\* entry is pushed
C30_MovingAverage ==
    smooth_call # None =>
       LET call == smooth_call[1]
           targeted == Targeted(call)
       IN  IF Len(targeted) >= call.window
           THEN /\ Len(call.after) = Len(call.before)
                /\ \A i \in DOMAIN call.before : call.after[i].at = call.before[i].at
                /\ \A k \in DOMAIN targeted :
                      LET window == WindowOf(call, k)
                          pos == call.after[targeted[k]].pos
                      IN  /\ NearestToMean(pos, window)
                          /\ \E i \in DOMAIN window : window[i] <= pos
                          /\ \E i \in DOMAIN window : pos <= window[i]
           ELSE /\ call.after = call.before
                /\ call.pushed = 0

\* four actions were smoothed with window 3: the ends over two positions,
\* the others over three
C30_Witness ==
    /\ smooth_call # None
    /\ smooth_call[1].window = 3
    /\ Len(Targeted(smooth_call[1])) = 4
    /\ smooth_call[1].pushed = 1
    /\ \A i \in {1, 3, 4} : smooth_call[1].after[i].pos # smooth_call[1].before[i].pos

\* a call with fewer targeted actions than the window
C30_TooFew ==
    /\ smooth_call # None
    /\ smooth_call[1].window = 5
    /\ Len(Targeted(smooth_call[1])) = 4
    /\ smooth_call[1].pushed = 0

C31_AtOnce ==
    /\ euro_call /= None
    /\ euro_call[1].before.x_prev /= None
    /\ euro_call[1].t <= euro_call[1].before.t_prev[1]
    /\ euro_call[1].x /= euro_call[1].before.x_prev[1]
    /\ euro_call[1].ret = euro_call[1].before.x_prev[1]

\* the items of a buffer that hold samples
Sampled(buffer) == SelectSeq(buffer, LAMBDA item : item.actions # <<>>)

\* the actions with a timestamp in [lo, hi], by value
Within(actions, lo, hi) == SelectSeq(actions, LAMBDA a : lo <= a.at /\ a.at <= hi)

\* what stop_recording leaves behind after the call c, when an axis's buffer
\* is committed as Commits(buffer): the axis holds its earlier actions up to
\* the first committed timestamp, the committed ones, and its earlier actions
\* beyond the last committed timestamp; an axis without samples is as it was;
\* the undo stack has one more "record" entry for every axis with samples,
\* whose previous actions are copies of the replaced ones; the buffer is
\* empty and is_recording is False
StopCommits(c, Commits(_)) ==
    LET items == Sampled(c.buffer)
    IN  /\ \A a \in RecAxes :
              IF \E i \in DOMAIN items : items[i].axis_name = a
              THEN LET item == items[CHOOSE i \in DOMAIN items : items[i].axis_name = a]
                       com == Commits(item.actions)
                   IN  AxesView[a] =
                           SelectSeq(c.axes[a], LAMBDA x : x.at < com[1].at)
                           \o com
                           \o SelectSeq(c.axes[a], LAMBDA x : x.at > Last(com).at)
              ELSE AxesView[a] = c.axes[a]
        /\ Len(undo_stack) = c.undo + Len(items)
        /\ \A i \in DOMAIN items :
              LET com == Commits(items[i].actions)
                  entry == undo_stack[c.undo + i]
              IN  /\ StackView(undo_stack)[c.undo + i] =
                         [type |-> "record", axis_name |-> items[i].axis_name,
                          start_ms |-> com[1].at, end_ms |-> Last(com).at,
                          actions |-> com,
                          previous |-> Within(c.axes[items[i].axis_name],
                                              com[1].at, Last(com).at)]
                  /\ \A k \in DOMAIN entry.previous, a \in RecAxes :
                        \A j \in DOMAIN axis_actions[a] :
                            entry.previous[k] # axis_actions[a][j]
        /\ _buffer = <<>>
        /\ ~is_recording

\* the reduction of a buffer, whatever its length (_reduce_points returns a
\* buffer of 2 or fewer points as it is)
ReducedAlways(actions) == _reduce_points(actions, Recorder_rdp_epsilon)

\* the reduction of a buffer of more than 3 points, a shorter buffer as it is
ReducedAbove3(actions) ==
    IF Len(actions) > 3 THEN _reduce_points(actions, Recorder_rdp_epsilon)
    ELSE actions

\* C32 as stated: stop_recording commits, for every axis with samples, the
\* RDP reduction at rdp_epsilon of its buffer, only buffers of 2 or fewer
\* points being committed as they are.
C32_CommitsReduction ==
    commit_call /= None => StopCommits(commit_call[1], ReducedAlways)

\* C32: stop_recording commits, for every axis with samples, the RDP
\* reduction at rdp_epsilon of its buffer, only buffers of 3 or fewer points
\* being committed as they are; the committed actions replace the axis's
\* earlier actions between the first and the last committed timestamp and
\* leave the others as they were; one "record" undo entry per axis with
\* samples holds a copy of the replaced actions; the buffer is cleared and
\* is_recording is False; an axis without samples changes nothing and pushes
\* nothing.
C32_CommitsReductionAbove3 ==
    commit_call /= None => StopCommits(commit_call[1], ReducedAbove3)

\* a buffer of four samples was committed as two actions, in place of two
\* earlier actions and before a third
C32_Witness ==
    /\ commit_call /= None
    /\ Len(undo_stack) = 1
    /\ Len(commit_call[1].buffer[1].actions) = 4
    /\ Len(StackView(undo_stack)[1].actions) = 2
    /\ Len(StackView(undo_stack)[1].previous) = 2
    /\ Len(AxesView["stroke"]) = 3

\* a buffer of three samples on a line was committed as it was
C32_ThreeKept ==
    /\ commit_call /= None
    /\ Len(undo_stack) = 1
    /\ Len(commit_call[1].buffer[1].actions) = 3
    /\ Len(ReducedAlways(commit_call[1].buffer[1].actions)) = 2
    /\ Len(StackView(undo_stack)[1].actions) = 3

\* C33: once Recorder.undo has been called, right after an undoable
\* operation, once for every undo entry the operation pushed, every axis
\* holds the (timestamp, position) content it held before the operation.
C33_UndoRestores ==
    (hist_call /= None /\ hist_call[1].op = "undo" /\ hist_call[1].left = 0)
        => AxesView = hist_call[1].before

\* the undo of what kind of operation has restored the axes: a recording
\* on two axes, undone in two calls
C33_RecordUndone ==
    /\ hist_call /= None
    /\ hist_call[1].op = "undo"
    /\ hist_call[1].left = 0
    /\ hist_call[1].type = "record"
    /\ Len(redo_stack) = 2
    /\ AxesView = hist_call[1].before

\* C34: Recorder.redo called right after Recorder.undo leaves the entry's
\* axis with the (timestamp, position) content it held right after the
\* operation that pushed the entry, whatever the entry's type and whatever
\* came before; redoing a clear_range removes the cleared actions again.
C34_RedoReapplies ==
    (hist_call /= None /\ hist_call[1].op = "redo" /\ hist_call[1].left = 0)
        => AxesView[hist_call[1].axis] = hist_call[1].after[hist_call[1].axis]

\* the redo of a recording and of a smoothing re-applied the operation
C34_RecordRedone ==
    /\ hist_call /= None
    /\ hist_call[1].op = "redo"
    /\ hist_call[1].left = 0
    /\ hist_call[1].type \in {"record", "smooth"}
    /\ hist_call[1].after /= hist_call[1].before
    /\ AxesView[hist_call[1].axis] = hist_call[1].after[hist_call[1].axis]

\* the actions buffered for an axis in a buffer given by value
BufferedFor(buffer, axis_name) ==
    IF \E i \in DOMAIN buffer : buffer[i].axis_name = axis_name
    THEN buffer[CHOOSE i \in DOMAIN buffer : buffer[i].axis_name = axis_name].actions
    ELSE <<>>

\* C35: while a recording runs, whatever the video times of the add_sample
\* calls (closer than min_interval_ms, repeated, jumping back) and however
\* active_axes changes, the samples buffered for an axis are at least
\* min_interval_ms apart in ascending order of time, every buffered position
\* lies in 0..100, and add_sample buffers nothing for an active axis whose
\* controller axis is missing from mapped_positions.
C35_BufferInvariant ==
    /\ is_recording =>
          \A i \in DOMAIN BufferView :
              LET actions == BufferView[i].actions
              IN  /\ \A k \in 1..(Len(actions) - 1) :
                        actions[k + 1].at - actions[k].at >= min_interval_ms
                  /\ \A k \in DOMAIN actions :
                        actions[k].pos >= 0 /\ actions[k].pos <= 100
    /\ buf_call /= None =>
          \A a \in buf_call[1].active_axes :
              AXIS_DEFINITIONS[a] \notin DOMAIN buf_call[1].mapped_positions
                  => BufferedFor(BufferView, a) = BufferedFor(buf_call[1].buffer, a)

\* a sample 11 ms after the one before was buffered with its position cut to
\* 100, a call at an earlier video time then left the buffer as it was, and
\* the axis surge, switched on without its controller axis in the call, got
\* no sample
C35_Witness ==
    /\ is_recording
    /\ buf_call /= None
    /\ "surge" \in buf_call[1].active_axes
    /\ "z" \notin DOMAIN buf_call[1].mapped_positions
    /\ BufferedFor(BufferView, "surge") = <<[at |-> 11, pos |-> 0]>>
    /\ BufferedFor(BufferView, "stroke") =
          <<[at |-> 0, pos |-> 30], [at |-> 11, pos |-> 100]>>
    /\ buf_call[1].video_time_ms = 5
    /\ BufferView = buf_call[1].buffer

\* C36: unlock_axis on a locked axis returns normally, leaves the axis
\* unlocked and its stabilizer's filters reset, the other axes' filters
\* untouched; toggle_axis_lock on a locked axis does the same and returns
\* False, and on an unlocked axis it returns True with the axis frozen at
\* the current raw value.
C36_LockToggle ==
    lock_call /= None =>
        LET c == lock_call[1]
            unlocks == /\ c.op \in {"unlock_axis", "toggle_axis_lock"}
                       /\ c.axis \in LockAxes
                       /\ c.ctl._axis_locks[c.axis]
            locks == /\ c.op = "toggle_axis_lock"
                     /\ ~c.ctl._axis_locks[c.axis]
        IN  /\ unlocks =>
                  /\ c.raised = ""
                  /\ ~lock_ctl._axis_locks[c.axis]
                  /\ lock_stabs =
                        [a \in LockAxes |->
                            IF a = c.axis THEN AxisStabilizer_reset(c.stabs[a])
                            ELSE c.stabs[a]]
                  /\ c.op = "toggle_axis_lock" => c.ret = Some(FALSE)
            /\ locks =>
                  /\ c.ret = Some(TRUE)
                  /\ lock_ctl._axis_locks[c.axis]
                  /\ lock_ctl._axis_lock_values[c.axis] = c.ctl.state[c.axis]

\* toggle_axis_lock froze an axis at a raw value that a poll had delivered
C36_Frozen ==
    /\ lock_call /= None
    /\ lock_call[1].op = "toggle_axis_lock"
    /\ lock_call[1].ret = Some(TRUE)
    /\ lock_ctl._axis_lock_values[lock_call[1].axis] /= 0

\* C37: every map_value of the polling loop computes with a (min_val,
\* max_val) pair that one calibration update wrote as a whole (or with the
\* pair of the constructor), never with the min_val of an update and the
\* max_val from before it.
C37_CalibrationReadWhole ==
    race_read /= None =>
        <<race_read[1].min_val, race_read[1].max_val>> \in race_written

\* a map_value that ran while no update was under way read a whole pair
C37_WholeRead ==
    /\ race_read /= None
    /\ race_ui.pc = "idle"
    /\ Cardinality(race_written) > 1
    /\ race_read[1].min_val = race_cal.min_val
    /\ race_read[1].max_val = race_cal.max_val

\* C38: when detect_beats returns, whatever its outcome, no temporary WAV
\* file made during that run is left.
C38_TempFilesDeleted ==
    tmp_pc = "returned" => tmp_made \cap tmp_files = {}

\* a run that got its audio, with a result or an exception on its way out,
\* has deleted its file
C38_DeletedAfterAnalysis ==
    /\ tmp_pc = "returned"
    /\ tmp_made /= {}
    /\ tmp_ret \in {Some("BeatData"), Some("exception")}
    /\ tmp_made \cap tmp_files = {}

\* action b of the axis before the last call is on the axis after it, with
\* its timestamp and its position
SnapStillThere(b) == \E j \in DOMAIN SnapAfter : SnapAfter[j] = b

\* the last beat-snap call ran over a selection
SnapRanOverSelection == SnapRan /\ snap_call[1].selection[1] >= 0

\* C39: after a beat snap over a selected time range, every action whose
\* timestamp was outside the selection is still on the axis with its
\* timestamp and position.
C39_SnapLeavesRest ==
    SnapRanOverSelection =>
        \A i \in DOMAIN snap_call[1].before :
            ~SnapTargeted(snap_call[1].before[i])
                => SnapStillThere(snap_call[1].before[i])

\* a beat snap over a selection moved a selected action and kept the
\* actions outside the selection
C39_RestKept ==
    /\ SnapRanOverSelection
    /\ SnapAfter # snap_call[1].before
    /\ \E i \in DOMAIN snap_call[1].before :
          ~SnapTargeted(snap_call[1].before[i])
    /\ \A i \in DOMAIN snap_call[1].before :
          ~SnapTargeted(snap_call[1].before[i])
              => SnapStillThere(snap_call[1].before[i])

\* the last two frames had the same input
SpikeSteady ==
    /\ spike_call # None /\ spike_before # None
    /\ spike_before[1].x = spike_call[1].x

\* C40: with a threshold above 0 and whatever came before, when the input
\* has the same value on two consecutive frames the output of the second
\* frame is that value.
C40_SteadyInputEmitted ==
    (SpikeSteady /\ spike_call[1].before.threshold > 0)
        => spike_call[1].ret = spike_call[1].x

\* a step from 0 to 10 was held for one frame and emitted on the next
C40_Witness ==
    /\ SpikeSteady
    /\ spike_before[1].before.prev = Some(0)
    /\ spike_before[1].x = 10
    /\ spike_before[1].ret = 0
    /\ spike_call[1].before.held = Some(10)
    /\ spike_call[1].ret = 10

=============================================================================
